---- MODULE Spec2Model ----
(***************************************************************************)
(* Model of the host_rewrite_proxy package, a reverse proxy that presents   *)
(* proxy_host in place of target_host: the CookieRewriter that parses,     *)
(* rewrites and serialises Set-Cookie values, the ProxyRequest that        *)
(* prepares the client's request for the origin, the ProxyResponse that    *)
(* rewrites the origin's response, and the request handler of              *)
(* HostRewriteServer that puts them together.                              *)
(*                                                                         *)
(* A Python str is a sequence of one-character strings, so that split,     *)
(* strip, lower and the regular expression of the code are computed as the *)
(* code computes them.                                                     *)
(***************************************************************************)
EXTENDS Integers, Sequences, FiniteSets, TLC

VARIABLES
    target_host,        \* CookieRewriter.target_host
    proxy_host,         \* CookieRewriter.proxy_host
    pc,                 \* which method of the rewriter was called last
    cookie_headers,     \* argument of rewrite_cookies
    rewritten_cookies,  \* list returned by rewrite_cookies
    cookie_string,      \* argument of parse_cookie_string
    cookie_data,        \* dict returned by parse_cookie_string, mutated by rewrite_cookie_domain
    result,             \* str returned by cookie_to_string
    domain_arg,         \* argument of a direct should_rewrite_domain call
    should_rewrite,     \* value returned by that call
    joined_header,      \* argument of a direct _split_cookies call
    split_result,       \* list returned by that call
    raised,             \* TRUE when the last call ended in an exception
    origin_headers,     \* the headers a ProxyResponse was constructed with
    resp_headers,       \* ProxyResponse.headers
    body_stream,        \* chunks ProxyResponse.body_stream has yet to give
    chunk,              \* bytes last read from body_stream
    yielded,            \* bytes ProxyResponse.next_chunk returned last
    done,               \* done_flag ProxyResponse.next_chunk returned last
    translate_iter,     \* the generator of translate_content: none, suspended or finished
    stream_closed,      \* TRUE when body_stream.close() was called
    chunks_read,        \* history: the chunks read from body_stream, in order
    chunks_returned,    \* history: the chunks next_chunk returned with done_flag False
    received,           \* the ProxyRequest as it was constructed
    proxy_req,          \* the ProxyRequest
    upstream_call,      \* the arguments of the handler's requests.request call
    upstream,           \* how that call ended: the origin's response or an error
    response,           \* the Response the handler returned
    origin_body,        \* the body the origin sent, read when the response is streamed
    client_body,        \* the chunks stream_content yielded
    tasks,              \* handlers in flight together: per request, where its task
                        \* is, and what went over its two connections
    frames              \* the local variables of each call of proxy_request

\* what the calls of a CookieRewriter take and return
cookieVars == <<cookie_headers, rewritten_cookies, cookie_string, cookie_data,
                result, domain_arg, should_rewrite, joined_header, split_result>>

\* the generator that streams a ProxyResponse, and what went through it
iterVars == <<translate_iter, stream_closed, chunks_read, chunks_returned>>

\* the state of a ProxyResponse
responseVars == <<origin_headers, resp_headers, body_stream, chunk, yielded, done, iterVars>>

\* the state of a ProxyRequest
requestVars == <<received, proxy_req>>

\* the state of one run of the handler of HostRewriteServer
concurrentVars == <<tasks, frames>>

serverVars == <<upstream_call, upstream, response, origin_body, client_body,
                concurrentVars>>

vars == <<target_host, proxy_host, pc, raised, cookieVars, responseVars, requestVars,
          serverVars>>

----------------------------------------------------------------------------
(* Bounds of the model. *)

\* longest list handed to rewrite_cookies
MaxHeaders == 2

\* most attributes that follow name=value in a generated cookie string
MaxAttrs == 2

----------------------------------------------------------------------------
(* Python str operations. *)

UpperLetters == <<"A","B","C","D","E","F","G","H","I","J","K","L","M",
                  "N","O","P","Q","R","S","T","U","V","W","X","Y","Z">>

LowerLetters == <<"a","b","c","d","e","f","g","h","i","j","k","l","m",
                  "n","o","p","q","r","s","t","u","v","w","x","y","z">>

Digits == {"0","1","2","3","4","5","6","7","8","9"}

Range(s) == {s[i] : i \in DOMAIN s}

\* one character of str.lower()
LowerChar(c) ==
    IF \E i \in DOMAIN UpperLetters : UpperLetters[i] = c
    THEN LowerLetters[CHOOSE i \in DOMAIN UpperLetters : UpperLetters[i] = c]
    ELSE c

\* str.lower()
Lower(s) == [i \in DOMAIN s |-> LowerChar(s[i])]

\* c in s, for a single character c
Contains(s, c) == \E i \in DOMAIN s : s[i] = c

\* the characters str.strip() removes (of those the model's inputs hold)
Whitespace == {" "}

RECURSIVE LStrip(_)
LStrip(s) ==
    IF s # <<>> /\ Head(s) \in Whitespace THEN LStrip(Tail(s)) ELSE s

RECURSIVE RStrip(_)
RStrip(s) ==
    IF s # <<>> /\ s[Len(s)] \in Whitespace
    THEN RStrip(SubSeq(s, 1, Len(s) - 1))
    ELSE s

\* str.strip()
Strip(s) == RStrip(LStrip(s))

RECURSIVE FindFrom(_, _, _)
FindFrom(s, c, i) ==
    IF i > Len(s) THEN 0 ELSE IF s[i] = c THEN i ELSE FindFrom(s, c, i + 1)

\* s.find(c) + 1: the position of the first c in s, 0 when there is none
Find(s, c) == FindFrom(s, c, 1)

\* s.split(c): the pieces of s between the occurrences of c
RECURSIVE Split(_, _)
Split(s, c) ==
    LET k == Find(s, c)
    IN  IF k = 0 THEN <<s>>
        ELSE <<SubSeq(s, 1, k - 1)>> \o Split(SubSeq(s, k + 1, Len(s)), c)

\* s.split(c, 1) of a string that holds c: what is before and after the first c
Split1Before(s, c) == SubSeq(s, 1, Find(s, c) - 1)

Split1After(s, c) == SubSeq(s, Find(s, c) + 1, Len(s))

\* s.endswith(t)
EndsWith(s, t) ==
    Len(t) <= Len(s) /\ SubSeq(s, Len(s) - Len(t) + 1, Len(s)) = t

\* the str() of the bool True, as an f-string writes it
TrueStr == <<"T", "r", "u", "e">>

----------------------------------------------------------------------------
(* The attrs dict of a parsed cookie: a Python dict keeps its keys in the  *)
(* order they were first inserted, so it is a sequence of entries          *)
(* [key, flag, val]; flag is TRUE when the value is the bool True.         *)

DictHas(attrs, k) == \E i \in DOMAIN attrs : attrs[i].key = k

DictGet(attrs, k) == attrs[CHOOSE i \in DOMAIN attrs : attrs[i].key = k]

\* attrs[e.key] = e: a key already there keeps its place and takes the new value
DictSet(attrs, e) ==
    IF DictHas(attrs, e.key)
    THEN [i \in DOMAIN attrs |-> IF attrs[i].key = e.key THEN e ELSE attrs[i]]
    ELSE Append(attrs, e)

Key_path == <<"p", "a", "t", "h">>
Key_domain == <<"d", "o", "m", "a", "i", "n">>
Key_expires == <<"e", "x", "p", "i", "r", "e", "s">>
Key_max_age == <<"m", "a", "x", "-", "a", "g", "e">>
Key_secure == <<"s", "e", "c", "u", "r", "e">>
Key_httponly == <<"h", "t", "t", "p", "o", "n", "l", "y">>
Key_samesite == <<"s", "a", "m", "e", "s", "i", "t", "e">>

\* the attribute names cookie_to_string writes, in the order it writes them
KnownKeys == <<Key_path, Key_domain, Key_expires, Key_max_age,
               Key_secure, Key_httponly, Key_samesite>>

----------------------------------------------------------------------------
(* CookieRewriter.parse_cookie_string *)

\* the {} parse_cookie_string returns for a string that is no cookie
EmptyDict == [empty |-> TRUE, name |-> <<>>, value |-> <<>>, attrs |-> <<>>]

\* the dict entry one stripped attribute token sets
AttrEntry(part) ==
    IF Contains(part, "=")
    THEN [key |-> Lower(Split1Before(part, "=")), flag |-> FALSE,
          val |-> Strip(Split1After(part, "="))]
    ELSE [key |-> Lower(part), flag |-> TRUE, val |-> <<>>]

\* the loop over parts[1:]
RECURSIVE ParseAttrs(_, _)
ParseAttrs(parts, attrs) ==
    IF parts = <<>> THEN attrs
    ELSE ParseAttrs(Tail(parts), DictSet(attrs, AttrEntry(Strip(Head(parts)))))

ParseCookieString(s) ==
    IF ~Contains(s, "=") THEN EmptyDict
    ELSE LET parts == Split(s, ";")
             name_value == Strip(parts[1])
         IN  IF ~Contains(name_value, "=") THEN EmptyDict
             ELSE [empty |-> FALSE,
                   name  |-> Strip(Split1Before(name_value, "=")),
                   value |-> Strip(Split1After(name_value, "=")),
                   attrs |-> ParseAttrs(Tail(parts), <<>>)]

----------------------------------------------------------------------------
(* CookieRewriter.should_rewrite_domain and rewrite_cookie_domain *)

\* What attrs.get('domain') can be: None, the bool True, or a str.
NoneArg == [kind |-> "None", val |-> <<>>]
TrueArg == [kind |-> "True", val |-> <<>>]
StrArg(s) == [kind |-> "str", val |-> s]

\* attrs.get(k)
AttrsGet(attrs, k) ==
    IF ~DictHas(attrs, k) THEN NoneArg
    ELSE IF DictGet(attrs, k).flag THEN TrueArg
    ELSE StrArg(DictGet(attrs, k).val)

\* the list target_variations
TargetVariations ==
    { Lower(target_host),
      <<".">> \o Lower(target_host),
      <<"w", "w", "w", ".">> \o Lower(target_host),
      <<".", "w", "w", "w", ".">> \o Lower(target_host) }

\* Mutant: the comparison without domain.lower().
ShouldRewriteDomainCaseSensitive(domain) ==
    IF domain.kind = "None" \/ (domain.kind = "str" /\ domain.val = <<>>)
    THEN [raised |-> FALSE, value |-> FALSE]
    ELSE IF domain.kind = "True"
    THEN [raised |-> TRUE, value |-> FALSE]
    ELSE [raised |-> FALSE, value |-> domain.val \in TargetVariations]

\* Mutant: domain.endswith(target_host) instead of membership in the list.
ShouldRewriteDomainSuffix(domain) ==
    IF domain.kind = "None" \/ (domain.kind = "str" /\ domain.val = <<>>)
    THEN [raised |-> FALSE, value |-> FALSE]
    ELSE IF domain.kind = "True"
    THEN [raised |-> TRUE, value |-> FALSE]
    ELSE [raised |-> FALSE, value |-> EndsWith(Lower(domain.val), Lower(target_host))]

\* [raised, value]: True is not falsy and has no lower(), so it raises
\* AttributeError; None and '' return False.
ShouldRewriteDomain(domain) ==
    IF domain.kind = "None" \/ (domain.kind = "str" /\ domain.val = <<>>)
    THEN [raised |-> FALSE, value |-> FALSE]
    ELSE IF domain.kind = "True"
    THEN [raised |-> TRUE, value |-> FALSE]
    ELSE [raised |-> FALSE, value |-> Lower(domain.val) \in TargetVariations]

\* Mutant: a cookie without a Domain gets proxy_host, as
\* attrs.get('domain', self.proxy_host) would give it.
RewriteCookieDomainDefaulting(data) ==
    LET domain == AttrsGet(data.attrs, Key_domain)
        should == ShouldRewriteDomain(domain)
    IN  IF should.raised THEN [raised |-> TRUE, data |-> data]
        ELSE IF should.value \/ domain.kind = "None"
        THEN [raised |-> FALSE,
              data |-> [data EXCEPT !.attrs =
                          DictSet(@, [key |-> Key_domain, flag |-> FALSE, val |-> proxy_host])]]
        ELSE [raised |-> FALSE, data |-> data]

\* [raised, data]: the dict with attrs['domain'] = proxy_host when the domain
\* is one to rewrite, the dict as it was otherwise
RewriteCookieDomain(data) ==
    LET domain == AttrsGet(data.attrs, Key_domain)
        should == ShouldRewriteDomain(domain)
    IN  IF should.raised THEN [raised |-> TRUE, data |-> data]
        ELSE IF should.value
        THEN [raised |-> FALSE,
              data |-> [data EXCEPT !.attrs =
                          DictSet(@, [key |-> Key_domain, flag |-> FALSE, val |-> proxy_host])]]
        ELSE [raised |-> FALSE, data |-> data]

----------------------------------------------------------------------------
(* CookieRewriter.cookie_to_string *)

\* f"{attrs[k]}"
AttrStr(attrs, k) == IF DictGet(attrs, k).flag THEN TrueStr ELSE DictGet(attrs, k).val

\* attrs.get(k) is truthy: True or a non-empty str
AttrTruthy(attrs, k) ==
    DictHas(attrs, k) /\ (DictGet(attrs, k).flag \/ DictGet(attrs, k).val # <<>>)

\* if 'path' in attrs: result += f"; Path={attrs['path']}"
PathPart(attrs) ==
    IF DictHas(attrs, Key_path) THEN <<";", " ", "P", "a", "t", "h", "=">> \o AttrStr(attrs, Key_path) ELSE <<>>

DomainPart(attrs) ==
    IF DictHas(attrs, Key_domain) THEN <<";", " ", "D", "o", "m", "a", "i", "n", "=">> \o AttrStr(attrs, Key_domain) ELSE <<>>

ExpiresPart(attrs) ==
    IF DictHas(attrs, Key_expires) THEN <<";", " ", "E", "x", "p", "i", "r", "e", "s", "=">> \o AttrStr(attrs, Key_expires) ELSE <<>>

\* Mutant: the attribute written under a name the parser does not know.
MaxAgePartMisnamed(attrs) ==
    IF DictHas(attrs, Key_max_age) THEN <<";", " ", "M", "a", "x", "A", "g", "e", "=">> \o AttrStr(attrs, Key_max_age) ELSE <<>>

MaxAgePart(attrs) ==
    IF DictHas(attrs, Key_max_age) THEN <<";", " ", "M", "a", "x", "-", "A", "g", "e", "=">> \o AttrStr(attrs, Key_max_age) ELSE <<>>

\* if attrs.get('secure'): result += "; Secure"
SecurePart(attrs) ==
    IF AttrTruthy(attrs, Key_secure) THEN <<";", " ", "S", "e", "c", "u", "r", "e">> ELSE <<>>

HttpOnlyPart(attrs) ==
    IF AttrTruthy(attrs, Key_httponly) THEN <<";", " ", "H", "t", "t", "p", "O", "n", "l", "y">> ELSE <<>>

SameSitePart(attrs) ==
    IF DictHas(attrs, Key_samesite) THEN <<";", " ", "S", "a", "m", "e", "S", "i", "t", "e", "=">> \o AttrStr(attrs, Key_samesite) ELSE <<>>

\* Mutant: Domain written before Path.
CookieToStringDomainFirst(data) ==
    IF data.empty THEN <<>>
    ELSE data.name \o <<"=">> \o data.value
         \o DomainPart(data.attrs) \o PathPart(data.attrs) \o ExpiresPart(data.attrs)
         \o MaxAgePart(data.attrs) \o SecurePart(data.attrs) \o HttpOnlyPart(data.attrs)
         \o SameSitePart(data.attrs)

\* '' for the empty dict, else name=value and the seven attributes in this order
CookieToString(data) ==
    IF data.empty THEN <<>>
    ELSE data.name \o <<"=">> \o data.value
         \o PathPart(data.attrs) \o DomainPart(data.attrs) \o ExpiresPart(data.attrs)
         \o MaxAgePart(data.attrs) \o SecurePart(data.attrs) \o HttpOnlyPart(data.attrs)
         \o SameSitePart(data.attrs)

----------------------------------------------------------------------------
(* CookieRewriter._split_cookies, _parse_set_cookie_header and             *)
(* _looks_like_cookie_start                                                *)

Letters == Range(UpperLetters) \cup Range(LowerLetters)

\* re.match(r'^[A-Za-z_][A-Za-z0-9_-]*=', text.strip())
LooksLikeCookieStart(text) ==
    LET t == Strip(text)
    IN  \E k \in 2..Len(t) :
            /\ t[k] = "="
            /\ t[1] \in Letters \cup {"_"}
            /\ \A j \in 2..(k-1) : t[j] \in Letters \cup Digits \cup {"_", "-"}

\* cookies.append(current_cookie.strip()) when that is not empty
AppendCookie(cookies, current_cookie) ==
    LET stripped == Strip(current_cookie)
    IN  IF stripped # <<>> THEN Append(cookies, stripped) ELSE cookies

\* the while loop of _parse_set_cookie_header, from index i (1-based)
RECURSIVE ScanHeader(_, _, _, _, _)
ScanHeader(h, i, cookies, current_cookie, in_quotes) ==
    IF i > Len(h) THEN AppendCookie(cookies, current_cookie)
    ELSE IF h[i] = "\""
    THEN ScanHeader(h, i + 1, cookies, Append(current_cookie, h[i]), ~in_quotes)
    ELSE IF h[i] = "," /\ ~in_quotes
    THEN IF LooksLikeCookieStart(Strip(SubSeq(h, i + 1, Len(h))))
         THEN ScanHeader(h, i + 1, AppendCookie(cookies, current_cookie), <<>>, in_quotes)
         ELSE ScanHeader(h, i + 1, cookies, Append(current_cookie, h[i]), in_quotes)
    ELSE ScanHeader(h, i + 1, cookies, Append(current_cookie, h[i]), in_quotes)

ParseSetCookieHeader(header_string) == ScanHeader(header_string, 1, <<>>, <<>>, FALSE)

RECURSIVE StripEach(_)
StripEach(ss) == IF ss = <<>> THEN <<>> ELSE <<Strip(Head(ss))>> \o StripEach(Tail(ss))

\* Mutant: a split at every comma, [c.strip() for c in cookie_header.split(',')].
SplitCookiesAtEveryComma(cookie_header) == StripEach(Split(cookie_header, ","))

\* every header rewrite_cookies passes is a str
SplitCookies(cookie_header) == ParseSetCookieHeader(cookie_header)

----------------------------------------------------------------------------
(* CookieRewriter.rewrite_cookies *)

\* Mutant: a string that does not parse ends the call with an exception.
RECURSIVE RewriteEachRaising(_, _)
RewriteEachRaising(individual_cookies, acc) ==
    IF individual_cookies = <<>> THEN [raised |-> FALSE, cookies |-> acc]
    ELSE LET data == ParseCookieString(Head(individual_cookies))
         IN  IF data.empty THEN [raised |-> TRUE, cookies |-> <<>>]
             ELSE LET rewritten == RewriteCookieDomain(data)
                      rewritten_string == CookieToString(rewritten.data)
                  IN  IF rewritten.raised THEN [raised |-> TRUE, cookies |-> <<>>]
                      ELSE RewriteEachRaising(Tail(individual_cookies),
                                              IF rewritten_string # <<>>
                                              THEN Append(acc, rewritten_string) ELSE acc)

\* the inner loop over individual_cookies; [raised, cookies]
RECURSIVE RewriteEach(_, _)
RewriteEach(individual_cookies, acc) ==
    IF individual_cookies = <<>> THEN [raised |-> FALSE, cookies |-> acc]
    ELSE LET data == ParseCookieString(Head(individual_cookies))
         IN  IF data.empty THEN RewriteEach(Tail(individual_cookies), acc)
             ELSE LET rewritten == RewriteCookieDomain(data)
                      rewritten_string == CookieToString(rewritten.data)
                  IN  IF rewritten.raised THEN [raised |-> TRUE, cookies |-> <<>>]
                      ELSE RewriteEach(Tail(individual_cookies),
                                       IF rewritten_string # <<>>
                                       THEN Append(acc, rewritten_string) ELSE acc)

\* the outer loop over cookie_headers
RECURSIVE RewriteHeaders(_, _)
RewriteHeaders(headers, acc) ==
    IF headers = <<>> THEN [raised |-> FALSE, cookies |-> acc]
    ELSE LET r == RewriteEach(SplitCookies(Head(headers)), acc)
         IN  IF r.raised THEN r ELSE RewriteHeaders(Tail(headers), r.cookies)

\* [raised, cookies]: the list returned, or the exception that ends the call
RewriteCookies(headers) == RewriteHeaders(headers, <<>>)

----------------------------------------------------------------------------
(* The inputs the calls are made with. *)

\* the (target_host, proxy_host) a CookieRewriter is constructed with
TargetHosts == { <<"e", "x", ".", "c", "o", "m">>, <<"a", ".", "b", ".", "e", "x", ".", "c", "o", "m">> }

ProxyHosts == { <<"p", "x", ".", "a", "p", "p">> }

\* the name=value segment a generated cookie string begins with
NameValues ==
    { <<"a", "=", "1">>,
      <<" ", "b", " ", "=", " ", "2", "=", "3", " ">>,
      <<"j", "u", "n", "k">> }

\* the attribute tokens, each with the ';' before it
AttrTokens ==
    { <<";", " ", "d", "o", "m", "a", "i", "n", "=", ".", "E", "X", ".", "c", "o", "m">>,
      <<";", " ", "D", "o", "m", "a", "i", "n", "=", "a", "p", "i", ".", "e", "x", ".", "c", "o", "m">>,
      <<";", " ", "D", "o", "m", "a", "i", "n", "=", "b", ".", "e", "x", ".", "c", "o", "m">>,
      <<";", " ", "D", "o", "m", "a", "i", "n", "=", "o", "t", "h", "e", "r", ".", "c", "o", "m">>,
      <<";", " ", "D", "o", "m", "a", "i", "n">>,
      <<";", " ", "P", "a", "t", "h", "=", "/">>,
      <<";", "p", "a", "t", "h", "=", "/", "x", " ">>,
      <<";", " ", "P", "a", "t", "h">>,
      <<";", " ", "E", "x", "p", "i", "r", "e", "s", "=", "W", "e", "d", ",", " ", "2", "1", " ", "O", "c", "t">>,
      <<";", " ", "M", "a", "x", "-", "A", "g", "e", "=", "9">>,
      <<";", " ", "S", "e", "c", "u", "r", "e">>,
      <<";", " ", "S", "e", "c", "u", "r", "e", "=">>,
      <<";", " ", "H", "t", "t", "p", "O", "n", "l", "y">>,
      <<";", " ", "S", "a", "m", "e", "S", "i", "t", "e", "=", "L", "a", "x">>,
      <<";", " ", "P", "r", "i", "o", "r", "i", "t", "y", "=", "H", "i", "g", "h">>,
      <<";", " ", "P", "a", "r", "t", "i", "t", "i", "o", "n", "e", "d">> }

RECURSIVE Concat(_)
Concat(ss) == IF ss = <<>> THEN <<>> ELSE Head(ss) \o Concat(Tail(ss))

\* every name=value followed by at most MaxAttrs attribute tokens, in every order
CookieStrings ==
    { nv \o Concat(toks) :
        nv \in NameValues,
        toks \in UNION { [1..n -> AttrTokens] : n \in 0..MaxAttrs } }

\* the header values the lists handed to rewrite_cookies are made of
HeaderPool ==
    { <<"a", "=", "1", ";", " ", "D", "o", "m", "a", "i", "n", "=", "e", "x", ".", "c", "o", "m", ";", " ", "P", "a", "t", "h", "=", "/">>,
      <<"b", "=", "2", ";", " ", "P", "a", "t", "h", "=", "/", ";", " ", "H", "t", "t", "p", "O", "n", "l", "y">>,
      <<"c", "=", "3", ";", " ", "E", "x", "p", "i", "r", "e", "s", "=", "W", "e", "d", ",", " ", "2", "1", " ", "O", "c", "t", ";", " ", "d", "o", "m", "a", "i", "n", "=", ".", "E", "X", ".", "c", "o", "m">>,
      <<"e", "=", "5", ";", " ", "D", "o", "m", "a", "i", "n", "=", "a", "p", "i", ".", "e", "x", ".", "c", "o", "m", ";", " ", "P", "r", "i", "o", "r", "i", "t", "y", "=", "H", "i", "g", "h">>,
      <<"f", "=", "6", ";", " ", "D", "o", "m", "a", "i", "n", "=", "o", "t", "h", "e", "r", ".", "c", "o", "m">>,
      <<" ", "g", "=", "7", " ", ";", "S", "e", "c", "u", "r", "e">>,
      <<"=", "v", ";", " ", "D", "o", "m", "a", "i", "n", "=", "w", "w", "w", ".", "a", ".", "b", ".", "e", "x", ".", "c", "o", "m">>,
      <<"j", "u", "n", "k">>,
      <<>>,
      <<"j", "u", "n", "k", ";", " ", "P", "a", "t", "h", "=", "/">>,
      <<"a", "=", "1", ",", " ", "b", "=", "2", ";", " ", "D", "o", "m", "a", "i", "n", "=", "e", "x", ".", "c", "o", "m">>,
      <<"q", "=", "\"", "x", ",", " ", "y", "=", "z", "\"">>,
      <<"d", "=", "4", ";", " ", "D", "o", "m", "a", "i", "n">>,
      <<"a", "=", "1", ";", " ", "D", "o", "m", "a", "i", "n", "=", "\"", "d", ";", " ", "P", "a", "t", "h", "=", "/", "p", ",", "b", "=", "2">> }

HeaderLists == UNION { [1..n -> HeaderPool] : n \in 0..MaxHeaders }

\* the arguments of a direct should_rewrite_domain call
DomainValues ==
    { <<>>, <<"e", "x", ".", "c", "o", "m">>, <<".", "e", "x", ".", "c", "o", "m">>, <<"w", "w", "w", ".", "e", "x", ".", "c", "o", "m">>, <<".", "w", "w", "w", ".", "e", "x", ".", "c", "o", "m">>, <<"E", "X", ".", "c", "o", "m">>, <<".", "W", "W", "W", ".", "E", "x", ".", "C", "o", "m">>,
      <<"a", "p", "i", ".", "e", "x", ".", "c", "o", "m">>, <<"x", ".", "a", "p", "i", ".", "e", "x", ".", "c", "o", "m">>, <<"a", ".", "b", ".", "e", "x", ".", "c", "o", "m">>, <<".", "A", ".", "B", ".", "e", "x", ".", "c", "o", "m">>, <<"w", "w", "w", ".", "a", ".", "b", ".", "e", "x", ".", "c", "o", "m">>,
      <<"b", ".", "e", "x", ".", "c", "o", "m">>, <<".", "b", ".", "e", "x", ".", "c", "o", "m">>, <<"c", "o", "m">>, <<".", "c", "o", "m">>, <<"o", "t", "h", "e", "r", ".", "c", "o", "m">>, <<".", "o", "t", "h", "e", "r", ".", "c", "o", "m">>,
      <<"p", "x", ".", "a", "p", "p">>, <<"n", "o", "t", "e", "x", ".", "c", "o", "m">>, <<"e", "x", ".", "c", "o", "m", ".", "e", "v", "i", "l", ".", "o", "r", "g">> }

DomainArgs == { NoneArg, TrueArg } \cup { StrArg(d) : d \in DomainValues }

----------------------------------------------------------------------------
(* The state machine: a CookieRewriter is constructed, then its methods    *)
(* are called.                                                             *)

\* no CookieRewriter method was called
CookieIdle ==
    /\ cookie_headers = <<>>
    /\ rewritten_cookies = <<>>
    /\ cookie_string = <<>>
    /\ cookie_data = EmptyDict
    /\ result = <<>>
    /\ domain_arg = NoneArg
    /\ should_rewrite = FALSE
    /\ joined_header = <<>>
    /\ split_result = <<>>

\* a ProxyResponse of which nothing was read
ResponseIdle ==
    /\ chunk = <<>>
    /\ yielded = <<>>
    /\ done = FALSE
    /\ translate_iter = "none"
    /\ stream_closed = FALSE
    /\ chunks_read = <<>>
    /\ chunks_returned = <<>>

\* no ProxyRequest
NoRequest ==
    [method |-> <<>>, path |-> <<>>, headers |-> <<>>, body |-> <<>>, query_string |-> <<>>]

RequestIdle ==
    /\ received = NoRequest
    /\ proxy_req = NoRequest

NoCall == [called |-> FALSE, method |-> <<>>, url |-> <<>>, headers |-> <<>>]

NoUpstream == [kind |-> "none", status |-> 0]

NoResponse == [returned |-> FALSE, status |-> 0, headers |-> <<>>]

NoBody == <<>>

\* no request is being handled
ServerIdle ==
    /\ upstream_call = NoCall
    /\ upstream = NoUpstream
    /\ response = NoResponse
    /\ origin_body = NoBody
    /\ client_body = <<>>
    /\ tasks = <<>>
    /\ frames = <<>>

Init ==
    /\ target_host \in TargetHosts
    /\ proxy_host \in ProxyHosts
    /\ pc = "constructed"
    /\ raised = FALSE
    /\ CookieIdle
    /\ origin_headers = <<>>
    /\ resp_headers = <<>>
    /\ body_stream = <<>>
    /\ ResponseIdle
    /\ RequestIdle
    /\ ServerIdle

\* rewrite_cookies(cookie_headers)
CallRewriteCookies ==
    /\ pc = "constructed"
    /\ \E headers \in HeaderLists :
          LET returned == RewriteCookies(headers)
          IN  /\ cookie_headers' = headers
              /\ rewritten_cookies' = returned.cookies
              /\ raised' = returned.raised
    /\ pc' = "rewrite_cookies"
    /\ UNCHANGED <<target_host, proxy_host, cookie_string, cookie_data, result,
                   domain_arg, should_rewrite>>
    /\ UNCHANGED <<joined_header, split_result, responseVars, requestVars, serverVars>>

\* should_rewrite_domain(domain)
CallShouldRewriteDomain ==
    /\ pc = "constructed"
    /\ \E d \in DomainArgs :
          /\ domain_arg' = d
          /\ should_rewrite' = ShouldRewriteDomain(d).value
          /\ raised' = ShouldRewriteDomain(d).raised
    /\ pc' = "should_rewrite_domain"
    /\ UNCHANGED <<target_host, proxy_host, cookie_headers, rewritten_cookies,
                   cookie_string, cookie_data, result>>
    /\ UNCHANGED <<joined_header, split_result, responseVars, requestVars, serverVars>>

\* cookie_data = parse_cookie_string(cookie_string)
CallParseCookieString ==
    /\ pc = "constructed"
    /\ \E s \in CookieStrings :
          /\ cookie_string' = s
          /\ cookie_data' = ParseCookieString(s)
    /\ pc' = "parse_cookie_string"
    /\ UNCHANGED <<target_host, proxy_host, cookie_headers, rewritten_cookies,
                   result, domain_arg, should_rewrite, raised>>
    /\ UNCHANGED <<joined_header, split_result, responseVars, requestVars, serverVars>>

\* cookie_data = rewrite_cookie_domain(cookie_data), on a dict that parsed
CallRewriteCookieDomain ==
    /\ pc = "parse_cookie_string"
    /\ ~cookie_data.empty
    /\ LET returned == RewriteCookieDomain(cookie_data)
       IN  /\ cookie_data' = returned.data
           /\ raised' = returned.raised
    /\ pc' = "rewrite_cookie_domain"
    /\ UNCHANGED <<target_host, proxy_host, cookie_headers, rewritten_cookies,
                   cookie_string, result, domain_arg, should_rewrite>>
    /\ UNCHANGED <<joined_header, split_result, responseVars, requestVars, serverVars>>

\* result = cookie_to_string(cookie_data), on the dict rewrite_cookie_domain returned
CallCookieToString ==
    /\ pc = "rewrite_cookie_domain"
    /\ ~raised
    /\ result' = CookieToString(cookie_data)
    /\ pc' = "cookie_to_string"
    /\ UNCHANGED <<target_host, proxy_host, cookie_headers, rewritten_cookies,
                   cookie_string, cookie_data, domain_arg, should_rewrite, raised>>
    /\ UNCHANGED <<joined_header, split_result, responseVars, requestVars, serverVars>>

\* most cookie strings joined into one header
MaxJoined == 2

\* cookie strings in which a comma stands only inside double quotes or
\* inside an Expires date
JoinableCookies ==
    { <<"a", "=", "1">>,
      <<"e", "=", "2", ";", " ", "E", "x", "p", "i", "r", "e", "s", "=", "W", "e", "d", ",", " ", "2", " ", "O", "c", "t">>,
      <<"q", "=", "\"", "x", ",", " ", "y", "=", "z", "\"">>,
      <<"c", "=", "3", ";", " ", "P", "a", "t", "h", "=", "/">>,
      <<"m", "y", ".", "i", "d", "=", "4">> }

\* ', '.join(cookies)
RECURSIVE JoinCookies(_)
JoinCookies(cookies) ==
    IF cookies = <<>> THEN <<>>
    ELSE IF Len(cookies) = 1 THEN Head(cookies)
    ELSE Head(cookies) \o <<",", " ">> \o JoinCookies(Tail(cookies))

JoinedHeaders ==
    { JoinCookies(cookies) : cookies \in UNION { [1..n -> JoinableCookies] : n \in 0..MaxJoined } }

\* _split_cookies(cookie_header)
CallSplitCookies ==
    /\ pc = "constructed"
    /\ \E header \in JoinedHeaders :
          /\ joined_header' = header
          /\ split_result' = SplitCookies(header)
    /\ pc' = "_split_cookies"
    /\ UNCHANGED <<target_host, proxy_host, raised, cookie_headers, rewritten_cookies,
                   cookie_string, cookie_data, result, domain_arg, should_rewrite>>
    /\ UNCHANGED <<responseVars, requestVars, serverVars>>

Next ==
    \/ CallSplitCookies
    \/ CallRewriteCookies
    \/ CallShouldRewriteDomain
    \/ CallParseCookieString
    \/ CallRewriteCookieDomain
    \/ CallCookieToString

Spec == Init /\ [][Next]_vars

----------------------------------------------------------------------------
(* Vocabulary of the properties below. *)

\* the cookie parse_cookie_string made of cookie_string, before any rewrite
Parsed == ParseCookieString(cookie_string)

\* its Domain, as attrs.get('domain') gives it
ParsedDomain == AttrsGet(Parsed.attrs, Key_domain)

\* a header value's first ';'-separated segment holds an '='
HasNameValue(h) == Contains(Split(h, ";")[1], "=")

\* a comma outside double quotes that a NAME= pattern follows
HasSeparatorComma(h) ==
    \E i \in DOMAIN h :
        /\ h[i] = ","
        /\ Cardinality({ j \in 1..(i-1) : h[j] = "\"" }) % 2 = 0
        /\ LooksLikeCookieStart(SubSeq(h, i + 1, Len(h)))

\* the attribute tokens of a header value: what follows its first ';', stripped
AttrTokensOf(h) == [ i \in 1..(Len(Split(h, ";")) - 1) |-> Strip(Split(h, ";")[i + 1]) ]

\* the name of an attribute token, lowercased
TokenName(tok) == Lower(IF Contains(tok, "=") THEN Split1Before(tok, "=") ELSE tok)

\* the header value holds a Domain attribute, with or without a value
HasDomainAttr(h) == \E i \in DOMAIN AttrTokensOf(h) : TokenName(AttrTokensOf(h)[i]) = Key_domain

\* the header value holds a Domain attribute that has no value
HasValuelessDomain(h) == \E i \in DOMAIN AttrTokensOf(h) : Lower(AttrTokensOf(h)[i]) = Key_domain

\* the header value is one well-formed cookie
OneCookie(h) == HasNameValue(h) /\ ~HasSeparatorComma(h) /\ ~HasValuelessDomain(h)

\* parse, rewrite_cookie_domain and cookie_to_string of one header value
RewriteOf(h) == CookieToString(RewriteCookieDomain(ParseCookieString(h)).data)

\* target_host and its three dotted and www forms, as the claim lists them
ClaimVariations ==
    { target_host, <<".">> \o target_host, <<"w", "w", "w", ".">> \o target_host, <<".", "w", "w", "w", ".">> \o target_host }

DomainIsVariation(d) == \E v \in ClaimVariations : Lower(d) = Lower(v)

\* d ends with '.' + target_host, compared case-insensitively
IsSubdomain(d) == EndsWith(Lower(d), <<".">> \o Lower(target_host))

Labels(d) == Cardinality({ i \in DOMAIN d : d[i] = "." }) + 1

StripLeadingDot(d) == IF d # <<>> /\ d[1] = "." THEN Tail(d) ELSE d

\* d, with or without a leading dot, is target_host less some leading labels,
\* and has at least two labels
IsParent(d) ==
    /\ Labels(StripLeadingDot(d)) >= 2
    /\ EndsWith(Lower(target_host), <<".">> \o Lower(StripLeadingDot(d)))

Unrelated(d) == ~DomainIsVariation(d) /\ ~IsSubdomain(d) /\ ~IsParent(d)

AfterRewrite == pc \in {"rewrite_cookie_domain", "cookie_to_string"}

----------------------------------------------------------------------------
(* C1 *)

----------------------------------------------------------------------------
(* C2 *)

\* C2: a Domain equal, case-insensitively, to target_host, '.'+target_host,
\* 'www.'+target_host or '.www.'+target_host makes should_rewrite_domain return
\* True, and rewrite_cookie_domain sets Domain to proxy_host and leaves the name,
\* the value and every other attribute as they were.
C2_VariationRewrittenOnly ==
    /\ pc = "should_rewrite_domain" /\ domain_arg.kind = "str"
         /\ DomainIsVariation(domain_arg.val)
         => should_rewrite /\ ~raised
    /\ AfterRewrite =>
         LET before == Parsed
             d == AttrsGet(before.attrs, Key_domain)
         IN  d.kind = "str" /\ DomainIsVariation(d.val)
               => /\ ~raised
                  /\ cookie_data.name = before.name
                  /\ cookie_data.value = before.value
                  /\ Len(cookie_data.attrs) = Len(before.attrs)
                  /\ \A i \in DOMAIN before.attrs :
                        cookie_data.attrs[i] =
                            IF before.attrs[i].key = Key_domain
                            THEN [key |-> Key_domain, flag |-> FALSE, val |-> proxy_host]
                            ELSE before.attrs[i]

\* a cookie with a mixed-case variation as Domain and another attribute, rewritten
C2_Witness ==
    /\ pc = "rewrite_cookie_domain"
    /\ ParsedDomain.kind = "str"
    /\ DomainIsVariation(ParsedDomain.val)
    /\ ParsedDomain.val # Lower(ParsedDomain.val)
    /\ Len(Parsed.attrs) = 2
    /\ AttrsGet(cookie_data.attrs, Key_domain) = StrArg(proxy_host)

----------------------------------------------------------------------------
(* C3 *)

\* C3: every Domain that is a subdomain of target_host makes
\* should_rewrite_domain return True, and is rewritten to proxy_host.
C3_SubdomainRewritten ==
    /\ pc = "should_rewrite_domain" /\ domain_arg.kind = "str" /\ IsSubdomain(domain_arg.val)
         => should_rewrite
    /\ AfterRewrite =>
         LET d == ParsedDomain
         IN  d.kind = "str" /\ IsSubdomain(d.val)
               => AttrsGet(cookie_data.attrs, Key_domain) = StrArg(proxy_host)

----------------------------------------------------------------------------
(* C4 *)

\* C4: for a target_host of three or more labels, every Domain that is a parent
\* of target_host with at least two labels is rewritten to proxy_host.
C4_ParentRewritten ==
    Labels(target_host) >= 3 =>
        /\ pc = "should_rewrite_domain" /\ domain_arg.kind = "str" /\ IsParent(domain_arg.val)
             => should_rewrite
        /\ AfterRewrite =>
             LET d == ParsedDomain
             IN  d.kind = "str" /\ IsParent(d.val)
                   => AttrsGet(cookie_data.attrs, Key_domain) = StrArg(proxy_host)

----------------------------------------------------------------------------
(* C5 *)

\* C5: a Domain unrelated to target_host (no variation of it, no subdomain, no
\* parent of two or more labels) is not one to rewrite: rewrite_cookie_domain
\* returns the cookie as it was, and rewrite_cookies returns it with the same
\* Domain value.
C5_UnrelatedDomainUnchanged ==
    /\ pc = "should_rewrite_domain" /\ domain_arg.kind = "str" /\ Unrelated(domain_arg.val)
         => ~should_rewrite /\ ~raised
    /\ AfterRewrite =>
         LET before == Parsed
             d == AttrsGet(before.attrs, Key_domain)
         IN  d.kind = "str" /\ Unrelated(d.val) =>
               /\ ~raised
               /\ cookie_data = before
               /\ pc = "cookie_to_string"
                    => AttrsGet(ParseCookieString(result).attrs, Key_domain) = d
    /\ pc = "rewrite_cookies" /\ ~raised =>
         \A i \in DOMAIN cookie_headers :
            LET before == ParseCookieString(cookie_headers[i])
                d == AttrsGet(before.attrs, Key_domain)
            IN  OneCookie(cookie_headers[i]) /\ d.kind = "str" /\ Unrelated(d.val) =>
                  \E k \in DOMAIN rewritten_cookies :
                     LET after == ParseCookieString(rewritten_cookies[k])
                     IN  /\ after.name = before.name
                         /\ after.value = before.value
                         /\ AttrsGet(after.attrs, Key_domain) = d

\* rewrite_cookies returned a cookie of an unrelated domain beside a rewritten one
C5_Witness ==
    /\ pc = "rewrite_cookies"
    /\ ~raised
    /\ Len(cookie_headers) = 2
    /\ LET d == AttrsGet(ParseCookieString(cookie_headers[1]).attrs, Key_domain)
       IN  d.kind = "str" /\ d.val # <<>> /\ Unrelated(d.val)
    /\ Len(rewritten_cookies) = 2
    /\ AttrsGet(ParseCookieString(rewritten_cookies[1]).attrs, Key_domain)
         = AttrsGet(ParseCookieString(cookie_headers[1]).attrs, Key_domain)
    /\ AttrsGet(ParseCookieString(rewritten_cookies[2]).attrs, Key_domain) = StrArg(proxy_host)
    /\ rewritten_cookies[2] # cookie_headers[2]

----------------------------------------------------------------------------
(* C6 *)

\* C6: a Set-Cookie value without a Domain attribute leaves rewrite_cookie_domain,
\* cookie_to_string and rewrite_cookies without a Domain attribute.
C6_NoDomainAdded ==
    /\ AfterRewrite /\ ~HasDomainAttr(cookie_string) =>
          /\ ~raised
          /\ ~DictHas(cookie_data.attrs, Key_domain)
          /\ pc = "cookie_to_string" => ~HasDomainAttr(result)
    /\ pc = "rewrite_cookies" =>
          /\ (\A i \in DOMAIN cookie_headers : ~HasDomainAttr(cookie_headers[i])) =>
                /\ ~raised
                /\ \A k \in DOMAIN rewritten_cookies : ~HasDomainAttr(rewritten_cookies[k])
          /\ (\A i \in DOMAIN cookie_headers : OneCookie(cookie_headers[i])) =>
                \A i \in DOMAIN cookie_headers :
                    ~HasDomainAttr(cookie_headers[i]) =>
                        i \in DOMAIN rewritten_cookies /\ ~HasDomainAttr(rewritten_cookies[i])

\* rewrite_cookies returned a cookie without Domain, attributes kept, beside one with a Domain
C6_Witness ==
    /\ pc = "rewrite_cookies"
    /\ ~raised
    /\ Len(cookie_headers) = 2
    /\ \A i \in DOMAIN cookie_headers : OneCookie(cookie_headers[i])
    /\ ~HasDomainAttr(cookie_headers[1])
    /\ HasDomainAttr(cookie_headers[2])
    /\ Len(rewritten_cookies) = 2
    /\ Len(AttrTokensOf(rewritten_cookies[1])) >= 1
    /\ ~HasDomainAttr(rewritten_cookies[1])
    /\ HasDomainAttr(rewritten_cookies[2])

----------------------------------------------------------------------------
(* C7 *)

HasEquals(h) == Contains(h, "=")

\* C7: an entry without '=' adds nothing to the list rewrite_cookies returns and
\* raises nothing: the call ends as it does on the other entries alone, and when
\* those are well-formed cookies it returns the rewrite of each, in their order.
C7_EntryWithoutEqualsDropped ==
    pc = "rewrite_cookies" =>
        LET others == SelectSeq(cookie_headers, HasEquals)
            alone == RewriteCookies(others)
        IN  /\ raised = alone.raised
            /\ rewritten_cookies = alone.cookies
            /\ (\A i \in DOMAIN others : OneCookie(others[i])) =>
                  /\ ~raised
                  /\ Len(rewritten_cookies) = Len(others)
                  /\ \A i \in DOMAIN others : rewritten_cookies[i] = RewriteOf(others[i])

\* an entry without '=' before a cookie that is rewritten and returned
C7_Witness ==
    /\ pc = "rewrite_cookies"
    /\ ~raised
    /\ Len(cookie_headers) = 2
    /\ cookie_headers[1] # <<>>
    /\ ~HasEquals(cookie_headers[1])
    /\ Len(rewritten_cookies) = 1
    /\ rewritten_cookies[1] = RewriteOf(cookie_headers[2])
    /\ rewritten_cookies[1] # cookie_headers[2]

----------------------------------------------------------------------------
(* C8 *)

\* the attribute names as cookie_to_string is to write them, in the claim's order
WrittenNames ==
    << <<"P", "a", "t", "h">>, <<"D", "o", "m", "a", "i", "n">>, <<"E", "x", "p", "i", "r", "e", "s">>, <<"M", "a", "x", "-", "A", "g", "e">>, <<"S", "e", "c", "u", "r", "e">>, <<"H", "t", "t", "p", "O", "n", "l", "y">>, <<"S", "a", "m", "e", "S", "i", "t", "e">> >>

\* Secure and HttpOnly are the boolean flags
IsFlagIndex(i) == i \in {5, 6}

\* what follows "; " in the j-th ';'-separated piece of a serialised cookie
WrittenToken(pieces, j) == Tail(pieces[j])

WrittenName(pieces, j) ==
    IF Contains(WrittenToken(pieces, j), "=")
    THEN Split1Before(WrittenToken(pieces, j), "=")
    ELSE WrittenToken(pieces, j)

WrittenIndex(pieces, j) ==
    CHOOSE i \in DOMAIN WrittenNames : WrittenNames[i] = WrittenName(pieces, j)

\* a known attribute is present: a flag that is truthy, another attribute that is a key
PresentIn(attrs, i) ==
    IF IsFlagIndex(i) THEN AttrTruthy(attrs, KnownKeys[i]) ELSE DictHas(attrs, KnownKeys[i])

----------------------------------------------------------------------------
(* C9 *)

\* C9: serialisation loses no attribute; in particular every attribute of the
\* parsed cookie outside the seven known names (Priority=High, Partitioned) is
\* in the string cookie_to_string returns.
C9_NoAttributeLost ==
    pc = "cookie_to_string" =>
        LET written == ParseCookieString(result).attrs
        IN  \A i \in DOMAIN cookie_data.attrs :
                cookie_data.attrs[i].key \notin Range(KnownKeys) =>
                    DictHas(written, cookie_data.attrs[i].key)

----------------------------------------------------------------------------
(* C10 *)

\* C10: a string cookie_to_string returned for a parsed and rewritten cookie,
\* parsed and serialised again, is the same string.
C10_SerializeAfterParseIsIdentity ==
    /\ pc = "cookie_to_string" => CookieToString(ParseCookieString(result)) = result
    /\ pc = "rewrite_cookies" =>
          \A k \in DOMAIN rewritten_cookies :
              CookieToString(ParseCookieString(rewritten_cookies[k])) = rewritten_cookies[k]

\* a cookie whose Domain was rewritten and whose string differs from the input
C10_Witness ==
    /\ pc = "cookie_to_string"
    /\ Len(cookie_data.attrs) = 2
    /\ ParsedDomain.kind = "str"
    /\ ParsedDomain # StrArg(proxy_host)
    /\ AttrsGet(cookie_data.attrs, Key_domain) = StrArg(proxy_host)
    /\ DictHas(cookie_data.attrs, Key_max_age)
    /\ result # cookie_string

----------------------------------------------------------------------------
(* ProxyResponse.translate_content and next_chunk.  A bytes object is a    *)
(* sequence of bytes: an ASCII byte is written as its character, the       *)
(* other bytes of the model are named.  A decoded str is a sequence of     *)
(* characters, U+00E9 being the one character outside ASCII.               *)

\* 0xC3, the lead byte of a two-byte UTF-8 sequence
LeadByte == "xC3"

\* 0xA9, a continuation byte; 0xC3 0xA9 is U+00E9
ContinuationByte == "xA9"

\* 0xFF, a byte no UTF-8 sequence holds
InvalidByte == "xFF"

NonAsciiBytes == {LeadByte, ContinuationByte, InvalidByte}

EAcute == "U+00E9"

\* chunk.decode('utf-8', errors='ignore'): a byte that starts no valid
\* sequence is skipped
RECURSIVE DecodeIgnore(_)
DecodeIgnore(bytes) ==
    IF bytes = <<>> THEN <<>>
    ELSE IF Head(bytes) \notin NonAsciiBytes
    THEN <<Head(bytes)>> \o DecodeIgnore(Tail(bytes))
    ELSE IF Head(bytes) = LeadByte /\ Len(bytes) >= 2 /\ bytes[2] = ContinuationByte
    THEN <<EAcute>> \o DecodeIgnore(SubSeq(bytes, 3, Len(bytes)))
    ELSE DecodeIgnore(Tail(bytes))

\* text.encode('utf-8')
RECURSIVE Encode(_)
Encode(text) ==
    IF text = <<>> THEN <<>>
    ELSE (IF Head(text) = EAcute THEN <<LeadByte, ContinuationByte>> ELSE <<Head(text)>>)
         \o Encode(Tail(text))

\* Mutant: a pattern cut off by the end of the text matches too.
MatchesAtCutOff(text, i, pattern) ==
    LET n == IF Len(text) - i + 1 < Len(pattern) THEN Len(text) - i + 1 ELSE Len(pattern)
    IN  Lower(SubSeq(text, i, i + n - 1)) = Lower(SubSeq(pattern, 1, n))

\* the literal pattern matches at text[i], re.IGNORECASE
MatchesAt(text, i, pattern) ==
    /\ i + Len(pattern) - 1 <= Len(text)
    /\ Lower(SubSeq(text, i, i + Len(pattern) - 1)) = Lower(pattern)

\* pattern.sub(repl, text) from position i on, the pattern being the
\* alternatives in the order the regular expression tries them: leftmost
\* matches, none overlapping another, each replaced by repl
RECURSIVE ReSub(_, _, _, _)
ReSub(alternatives, repl, text, i) ==
    IF i > Len(text) THEN <<>>
    ELSE LET hits == { k \in DOMAIN alternatives : MatchesAt(text, i, alternatives[k]) }
         IN  IF hits = {} THEN <<text[i]>> \o ReSub(alternatives, repl, text, i + 1)
             ELSE LET k == CHOOSE k \in hits : \A j \in hits : k <= j
                  IN  repl \o ReSub(alternatives, repl, text, i + Len(alternatives[k]))

Slashes == <<"/", "/">>

HttpScheme == <<"h", "t", "t", "p", ":">>

HttpsScheme == <<"h", "t", "t", "p", "s", ":">>

\* abs_pattern, https?://<origin_host>
AbsPattern(origin_host) ==
    << HttpsScheme \o Slashes \o origin_host, HttpScheme \o Slashes \o origin_host >>

\* rel_pattern, //<origin_host>
RelPattern(origin_host) == << Slashes \o origin_host >>

\* Mutant: the scheme of an absolute URL is kept and only //host replaced.
RewriteTextRelativeOnly(text, origin_host, proxy) ==
    ReSub(RelPattern(origin_host), Slashes \o proxy, text, 1)

\* the two substitutions, absolute first
RewriteText(text, origin_host, proxy) ==
    LET absolute == ReSub(AbsPattern(origin_host), HttpsScheme \o Slashes \o proxy, text, 1)
    IN  ReSub(RelPattern(origin_host), Slashes \o proxy, absolute, 1)

\* what translate_content yields for one chunk of body_stream
TranslateChunk(bytes, origin_host, proxy) ==
    Encode(RewriteText(DecodeIgnore(bytes), origin_host, proxy))

----------------------------------------------------------------------------
(* The body a ProxyResponse streams, and the calls of next_chunk on it.    *)

\* most chunks in a body_stream
MaxChunks == 2

\* most fragments a generated chunk is made of
MaxFrags == 3

\* origin_host and proxy_host of translate_content
ContentHosts ==
    { [target |-> <<"e", "x", ".", "c", "o", "m">>, proxy |-> <<"p", "x", ".", "a", "p", "p">>],
      [target |-> <<"e", "x", ".", "c", "o", "m">>, proxy |-> <<"e", "x", ".", "c", "o">>],
      [target |-> <<"e", "x", ".", "c", "o", "m">>, proxy |-> <<"p", "x", ".", "e", "x", ".", "c", "o", "m">>],
      [target |-> <<"e", "x", ".", "c", "o", "m">>, proxy |-> <<"e", "x", ".", "c", "o", "m", ".", "p", "x">>] }

ChunkFragments ==
    { <<"h", "t", "t", "p", ":", "/", "/">>, <<"h", "T", "T", "p", "s", ":", "/", "/">>, <<"/", "/">>, <<"E", "X", ".", "c", "o", "m">>, <<"m">>,
      <<InvalidByte>>, <<LeadByte>>, <<ContinuationByte>> }

\* iter_content gives no empty chunk
Chunks ==
    UNION { { Concat(f) : f \in [1..n -> ChunkFragments] } : n \in 1..MaxFrags }

\* chunks of a body cut inside a URL or inside a UTF-8 sequence
StreamPieces ==
    { <<"s", "e", "e", " ", "/", "/", "E", "X">>, <<".", "c", "o", "m", "/", "p">>, <<"g", "o", " ", "h", "t", "t", "p", ":">>, <<"/", "/", "e", "x", ".", "c", "o", "m", "/", "q">>,
      <<"a">> \o <<LeadByte>>, <<ContinuationByte>> \o <<"b">> }

\* in place of a chunk: reading body_stream raises there
StreamError == <<"ConnectionError">>

BodyStreams ==
    { <<bytes>> : bytes \in Chunks }
        \cup { <<StreamError>> }
        \cup UNION { [1..n -> StreamPieces \cup {StreamError}] : n \in 2..MaxChunks }

\* Mutant: the loop ends one chunk early.
ExhaustedBeforeLast(stream) == Len(stream) <= 1

\* the for statement over body_stream finds no further chunk
Exhausted(stream) == stream = <<>>

ContentInit ==
    /\ \E h \in ContentHosts : target_host = h.target /\ proxy_host = h.proxy
    /\ pc = "constructed"
    /\ raised = FALSE
    /\ CookieIdle
    /\ origin_headers = <<>>
    /\ resp_headers = <<>>
    /\ body_stream \in BodyStreams
    /\ ResponseIdle
    /\ RequestIdle
    /\ ServerIdle

\* next_chunk(origin_host, proxy_host) while body_stream has a chunk:
\* the generator of translate_content yields its translation
NextChunk ==
    /\ pc # "abandoned"
    /\ translate_iter # "finished"
    /\ ~Exhausted(body_stream)
    /\ Head(body_stream) # StreamError
    /\ chunk' = Head(body_stream)
    /\ yielded' = TranslateChunk(Head(body_stream), target_host, proxy_host)
    /\ done' = FALSE
    /\ body_stream' = Tail(body_stream)
    /\ translate_iter' = "suspended"
    /\ chunks_read' = Append(chunks_read, chunk')
    /\ chunks_returned' = Append(chunks_returned, yielded')
    /\ pc' = "next_chunk"
    /\ UNCHANGED <<target_host, proxy_host, raised, cookieVars, requestVars, serverVars,
                   origin_headers, resp_headers, stream_closed>>

\* next_chunk when reading body_stream raises: the for statement is outside
\* the try of the loop body, so the exception ends the generator and leaves
\* next_chunk
StreamRaises ==
    /\ pc # "abandoned"
    /\ translate_iter # "finished"
    /\ ~Exhausted(body_stream)
    /\ Head(body_stream) = StreamError
    /\ raised' = TRUE
    /\ translate_iter' = "finished"
    /\ pc' = "raised"
    /\ UNCHANGED <<target_host, proxy_host, cookieVars, requestVars, serverVars,
                   origin_headers, resp_headers, body_stream, chunk, yielded, done,
                   stream_closed, chunks_read, chunks_returned>>

\* next_chunk when body_stream is exhausted: the loop ends, the generator
\* closes body_stream and returns; StopIteration, (b'', True)
EndOfStream ==
    /\ pc # "abandoned"
    /\ translate_iter # "finished"
    /\ Exhausted(body_stream)
    /\ stream_closed' = TRUE
    /\ translate_iter' = "finished"
    /\ yielded' = <<>>
    /\ done' = TRUE
    /\ pc' = "next_chunk"
    /\ UNCHANGED <<target_host, proxy_host, raised, cookieVars, requestVars, serverVars,
                   origin_headers, resp_headers, body_stream, chunk, chunks_read,
                   chunks_returned>>

\* next_chunk on a generator that has finished: StopIteration, (b'', True)
CallAfterEnd ==
    /\ pc # "abandoned"
    /\ translate_iter = "finished"
    /\ yielded' = <<>>
    /\ done' = TRUE
    /\ raised' = FALSE
    /\ pc' = "next_chunk"
    /\ UNCHANGED <<target_host, proxy_host, cookieVars, requestVars, serverVars,
                   origin_headers, resp_headers, body_stream, chunk, iterVars>>

\* the consumer drops the generator while it is suspended at its yield:
\* GeneratorExit is raised there, which except Exception does not catch, and
\* the statements after the loop are not run
Abandon ==
    /\ translate_iter = "suspended"
    /\ translate_iter' = "finished"
    /\ pc' = "abandoned"
    /\ UNCHANGED <<target_host, proxy_host, raised, cookieVars, requestVars, serverVars,
                   origin_headers, resp_headers, body_stream, chunk, yielded, done,
                   stream_closed, chunks_read, chunks_returned>>

ContentNext ==
    \/ NextChunk
    \/ StreamRaises
    \/ EndOfStream
    \/ CallAfterEnd
    \/ Abandon

ContentSpec == ContentInit /\ [][ContentNext]_vars

----------------------------------------------------------------------------
(* C11 *)

\* the text of a chunk: its bytes decoded as UTF-8
TextOf(bytes) == DecodeIgnore(bytes)

\* the pattern occurs in the text, letter case ignored
ContainsCI(text, pattern) == \E i \in DOMAIN text : MatchesAt(text, i, pattern)

AbsoluteHttp == HttpScheme \o Slashes \o target_host

AbsoluteHttps == HttpsScheme \o Slashes \o target_host

ProtocolRelative == Slashes \o target_host

\* the text with, from left to right, every occurrence of http://target_host
\* or https://target_host replaced by https://proxy_host, every other
\* occurrence of //target_host by //proxy_host, and the rest kept
RECURSIVE ReplacedFrom(_, _)
ReplacedFrom(text, i) ==
    IF i > Len(text) THEN <<>>
    ELSE IF MatchesAt(text, i, AbsoluteHttps)
    THEN HttpsScheme \o Slashes \o proxy_host \o ReplacedFrom(text, i + Len(AbsoluteHttps))
    ELSE IF MatchesAt(text, i, AbsoluteHttp)
    THEN HttpsScheme \o Slashes \o proxy_host \o ReplacedFrom(text, i + Len(AbsoluteHttp))
    ELSE IF MatchesAt(text, i, ProtocolRelative)
    THEN Slashes \o proxy_host \o ReplacedFrom(text, i + Len(ProtocolRelative))
    ELSE <<text[i]>> \o ReplacedFrom(text, i + 1)

\* next_chunk has just returned the translation of a chunk
ChunkYielded == pc = "next_chunk" /\ ~done

\* C11 as stated: for a proxy_host that does not contain target_host, the text
\* of the yielded chunk is the text of the chunk read with every occurrence
\* replaced and the rest unchanged, and holds no occurrence of //target_host.
C11_EveryOccurrenceReplaced ==
    ChunkYielded /\ ~ContainsCI(proxy_host, target_host) =>
        /\ TextOf(yielded) = ReplacedFrom(TextOf(chunk), 1)
        /\ ~ContainsCI(TextOf(yielded), ProtocolRelative)

\* C11, amended: the same for a proxy_host that neither contains target_host
\* nor is the beginning of target_host.
C11_ReplacedUnlessProxyIsPrefix ==
    ChunkYielded /\ ~ContainsCI(proxy_host, target_host)
                 /\ ~MatchesAt(target_host, 1, proxy_host) =>
        /\ TextOf(yielded) = ReplacedFrom(TextOf(chunk), 1)
        /\ ~ContainsCI(TextOf(yielded), ProtocolRelative)
        /\ yielded = Encode(TextOf(yielded))

\* an absolute http URL of the target, in capitals, came out as https://proxy_host
C11_Witness ==
    /\ ChunkYielded
    /\ ~ContainsCI(proxy_host, target_host)
    /\ ~MatchesAt(target_host, 1, proxy_host)
    /\ MatchesAt(chunk, 1, AbsoluteHttp)
    /\ Len(chunk) > Len(AbsoluteHttp)
    /\ yielded = HttpsScheme \o Slashes \o proxy_host
                    \o SubSeq(chunk, Len(AbsoluteHttp) + 1, Len(chunk))
    /\ yielded # chunk

----------------------------------------------------------------------------
(* C12 *)

\* the bytes are well-formed UTF-8
RECURSIVE ValidUtf8(_)
ValidUtf8(bytes) ==
    IF bytes = <<>> THEN TRUE
    ELSE IF Head(bytes) \notin NonAsciiBytes THEN ValidUtf8(Tail(bytes))
    ELSE /\ Head(bytes) = LeadByte
         /\ Len(bytes) >= 2
         /\ bytes[2] = ContinuationByte
         /\ ValidUtf8(SubSeq(bytes, 3, Len(bytes)))

\* C12: a chunk that is not valid UTF-8 is yielded byte for byte as it was
\* read, and so is every chunk that holds no occurrence of the target host.
C12_NoByteDropped ==
    ChunkYielded =>
        /\ ~ValidUtf8(chunk) => yielded = chunk
        /\ ~ContainsCI(chunk, target_host) => yielded = chunk

----------------------------------------------------------------------------
(* ProxyRequest.translate.  A header list is a sequence of (name, value)   *)
(* pairs.                                                                  *)

Header(n, v) == [name |-> n, value |-> v]

HostName == <<"H", "o", "s", "t">>

HopByHopNames == { <<"c", "o", "n", "t", "e", "n", "t", "-", "l", "e", "n", "g", "t", "h">>, <<"t", "r", "a", "n", "s", "f", "e", "r", "-", "e", "n", "c", "o", "d", "i", "n", "g">>, <<"c", "o", "n", "n", "e", "c", "t", "i", "o", "n">> }

\* Mutant: the Host header is passed on as the client sent it.
TranslateRequestHeaderKeepingHost(header, target) ==
    IF Lower(header.name) \in HopByHopNames THEN <<>> ELSE <<header>>

\* Mutant: header names are normalised to lower case.
TranslateRequestHeaderLowercasing(header, target) ==
    LET lower == Lower(header.name)
    IN  IF lower = Lower(HostName) THEN << Header(HostName, target) >>
        ELSE IF lower \in HopByHopNames THEN <<>>
        ELSE << Header(lower, header.value) >>

\* one turn of the loop of translate: what the header adds to new_headers
TranslateRequestHeader(header, target) ==
    LET lower == Lower(header.name)
    IN  IF lower = Lower(HostName) THEN << Header(HostName, target) >>
        ELSE IF lower \in HopByHopNames THEN <<>>
        ELSE <<header>>

\* new_headers of translate
RECURSIVE TranslateRequestHeaders(_, _)
TranslateRequestHeaders(headers, target) ==
    IF headers = <<>> THEN <<>>
    ELSE TranslateRequestHeader(Head(headers), target)
            \o TranslateRequestHeaders(Tail(headers), target)

\* most headers in a generated request
MaxRequestHeaders == 3

RequestHeaderPool ==
    { Header(<<"H", "o", "s", "t">>, <<"p", "x", ".", "a", "p", "p">>), Header(<<"h", "o", "s", "t">>, <<"p", "x", ".", "a", "p", "p">>),
      Header(<<"C", "o", "n", "t", "e", "n", "t", "-", "L", "e", "n", "g", "t", "h">>, <<"5">>), Header(<<"t", "r", "a", "n", "s", "f", "e", "r", "-", "e", "n", "c", "o", "d", "i", "n", "g">>, <<"c", "h", "u", "n", "k", "e", "d">>),
      Header(<<"C", "O", "N", "N", "E", "C", "T", "I", "O", "N">>, <<"k", "e", "e", "p", "-", "a", "l", "i", "v", "e">>),
      Header(<<"C", "o", "o", "k", "i", "e">>, <<"a", "=", "1">>), Header(<<"C", "o", "o", "k", "i", "e">>, <<"b", "=", "2">>),
      Header(<<"X", "-", "M", "u", "l", "t", "i">>, <<"1">>), Header(<<"x", "-", "m", "u", "l", "t", "i">>, <<"2">>) }

RequestHeaderLists == UNION { [1..n -> RequestHeaderPool] : n \in 0..MaxRequestHeaders }

\* query_string is None when the URL has none
NoneValue == <<"None">>

Requests ==
    { [method |-> <<"G", "E", "T">>, path |-> <<"/">>, headers |-> h, body |-> <<>>,
       query_string |-> NoneValue] : h \in RequestHeaderLists }
    \cup
    { [method |-> <<"P", "O", "S", "T">>, path |-> <<"/", "l", "o", "g", "i", "n">>, headers |-> h, body |-> <<"u", "s", "e", "r", "=", "u">>,
       query_string |-> <<"n", "e", "x", "t", "=", "/", "h", "o", "m", "e">>] : h \in RequestHeaderLists }

RequestInit ==
    /\ target_host \in TargetHosts
    /\ proxy_host \in ProxyHosts
    /\ pc = "constructed"
    /\ raised = FALSE
    /\ CookieIdle
    /\ origin_headers = <<>>
    /\ resp_headers = <<>>
    /\ body_stream = <<>>
    /\ ResponseIdle
    /\ received \in Requests
    /\ proxy_req = received
    /\ ServerIdle

\* proxy_req.translate(target_host)
Translate ==
    /\ pc = "constructed"
    /\ proxy_req' = [proxy_req EXCEPT
                        !.headers = TranslateRequestHeaders(proxy_req.headers, target_host)]
    /\ pc' = "translate"
    /\ UNCHANGED <<target_host, proxy_host, raised, cookieVars, responseVars, serverVars,
                   received>>

RequestNext == Translate

RequestSpec == RequestInit /\ [][RequestNext]_vars

----------------------------------------------------------------------------
(* C15 *)

\* the header is named Host, in any letter case
NamedHost(header) == Lower(header.name) = <<"h", "o", "s", "t">>

\* the header is named Content-Length, Transfer-Encoding or Connection, in
\* any letter case
NamedHopByHop(header) ==
    Lower(header.name) \in { <<"c", "o", "n", "t", "e", "n", "t", "-", "l", "e", "n", "g", "t", "h">>, <<"t", "r", "a", "n", "s", "f", "e", "r", "-", "e", "n", "c", "o", "d", "i", "n", "g">>, <<"c", "o", "n", "n", "e", "c", "t", "i", "o", "n">> }

\* C15: after translate(target_host) every header named Host has the value
\* target_host and no header named Content-Length, Transfer-Encoding or
\* Connection remains.
C15_HostRewrittenHopByHopDropped ==
    pc = "translate" =>
        \A i \in DOMAIN proxy_req.headers :
            /\ NamedHost(proxy_req.headers[i]) => proxy_req.headers[i].value = target_host
            /\ ~NamedHopByHop(proxy_req.headers[i])

\* a request with a Host header of another value and a hop-by-hop header was translated
C15_Witness ==
    /\ pc = "translate"
    /\ \E i \in DOMAIN received.headers :
          NamedHost(received.headers[i]) /\ received.headers[i].value # target_host
    /\ \E i \in DOMAIN received.headers : NamedHopByHop(received.headers[i])
    /\ \E i \in DOMAIN proxy_req.headers : NamedHost(proxy_req.headers[i])
    /\ Len(proxy_req.headers) < Len(received.headers)

----------------------------------------------------------------------------
(* C16 *)

NotHopByHop(header) == ~NamedHopByHop(header)

\* C16: translate keeps every header other than Host and the hop-by-hop ones,
\* name casing and value, at its place among the kept headers, a Host header
\* standing where the Host header was; method, path, query string and body
\* are as received.
C16_OtherHeadersUntouched ==
    pc = "translate" =>
        LET kept == SelectSeq(received.headers, NotHopByHop)
        IN  /\ Len(proxy_req.headers) = Len(kept)
            /\ \A i \in DOMAIN kept :
                  IF NamedHost(kept[i]) THEN NamedHost(proxy_req.headers[i])
                  ELSE proxy_req.headers[i] = kept[i]
            /\ proxy_req.method = received.method
            /\ proxy_req.path = received.path
            /\ proxy_req.query_string = received.query_string
            /\ proxy_req.body = received.body

\* two Cookie headers around a dropped header are both kept, in order
C16_Witness ==
    /\ pc = "translate"
    /\ Len(received.headers) = 3
    /\ Lower(received.headers[1].name) = <<"c", "o", "o", "k", "i", "e">>
    /\ NamedHopByHop(received.headers[2])
    /\ Lower(received.headers[3].name) = <<"c", "o", "o", "k", "i", "e">>
    /\ received.headers[1].value # received.headers[3].value
    /\ proxy_req.headers = << received.headers[1], received.headers[3] >>
    /\ received.body # <<>>

----------------------------------------------------------------------------
(* urllib.parse.urlparse and urlunparse, as translate_headers uses them on *)
(* a Location value.                                                       *)

SchemeChars == Letters \cup Digits \cup {"+", "-", "."}

\* the schemes of urllib.parse.uses_params
UsesParams ==
    { <<>>, <<"f", "t", "p">>, <<"h", "d", "l">>, <<"p", "r", "o", "s", "p", "e", "r", "o">>, <<"h", "t", "t", "p">>, <<"i", "m", "a", "p">>, <<"h", "t", "t", "p", "s">>, <<"s", "h", "t", "t", "p">>, <<"r", "t", "s", "p">>,
      <<"r", "t", "s", "p", "u">>, <<"s", "i", "p">>, <<"s", "i", "p", "s">>, <<"m", "m", "s">>, <<"s", "f", "t", "p">>, <<"t", "e", "l">> }

\* the position of the ':' that ends a scheme, 0 when the value has no scheme
SchemeEnd(url) ==
    LET i == Find(url, ":")
    IN  IF /\ i > 1
           /\ url[1] \in Letters
           /\ \A j \in 1..(i - 1) : url[j] \in SchemeChars
        THEN i ELSE 0

\* _splitnetloc: the position of the first of '/', '?', '#' from i on, one
\* past the end when there is none
RECURSIVE NetlocEnd(_, _)
NetlocEnd(url, i) ==
    IF i > Len(url) THEN i
    ELSE IF url[i] \in {"/", "?", "#"} THEN i
    ELSE NetlocEnd(url, i + 1)

\* s.rfind(c) + 1
FindLast(s, c) ==
    IF Contains(s, c)
    THEN CHOOSE i \in DOMAIN s : s[i] = c /\ \A j \in (i + 1)..Len(s) : s[j] # c
    ELSE 0

\* _splitparams: the position of the ';' that starts the params, 0 for none
ParamsStart(path) ==
    IF Contains(path, "/") THEN FindFrom(path, ";", FindLast(path, "/"))
    ELSE Find(path, ";")

\* urlparse(value); raised is the ValueError for an unmatched bracket
UrlParse(value) ==
    LET c == SchemeEnd(value)
        scheme == IF c > 0 THEN Lower(SubSeq(value, 1, c - 1)) ELSE <<>>
        url1 == IF c > 0 THEN SubSeq(value, c + 1, Len(value)) ELSE value
        has_netloc == Len(url1) >= 2 /\ url1[1] = "/" /\ url1[2] = "/"
        d == NetlocEnd(url1, 3)
        netloc == IF has_netloc THEN SubSeq(url1, 3, d - 1) ELSE <<>>
        url2 == IF has_netloc THEN SubSeq(url1, d, Len(url1)) ELSE url1
        f == Find(url2, "#")
        fragment == IF f > 0 THEN SubSeq(url2, f + 1, Len(url2)) ELSE <<>>
        url3 == IF f > 0 THEN SubSeq(url2, 1, f - 1) ELSE url2
        q == Find(url3, "?")
        query == IF q > 0 THEN SubSeq(url3, q + 1, Len(url3)) ELSE <<>>
        url4 == IF q > 0 THEN SubSeq(url3, 1, q - 1) ELSE url3
        p == IF scheme \in UsesParams THEN ParamsStart(url4) ELSE 0
    IN  [raised |-> Contains(netloc, "[") # Contains(netloc, "]"),
         scheme |-> scheme,
         netloc |-> netloc,
         path |-> IF p > 0 THEN SubSeq(url4, 1, p - 1) ELSE url4,
         params |-> IF p > 0 THEN SubSeq(url4, p + 1, Len(url4)) ELSE <<>>,
         query |-> query,
         fragment |-> fragment]

\* urlunparse((scheme, netloc, path, params, query, fragment)) for a netloc
\* that is not empty
UrlUnparse(scheme, netloc, path, params, query, fragment) ==
    LET url1 == IF params # <<>> THEN path \o <<";">> \o params ELSE path
        url2 == IF url1 # <<>> /\ url1[1] # "/" THEN <<"/">> \o url1 ELSE url1
        url3 == Slashes \o netloc \o url2
        url4 == IF scheme # <<>> THEN scheme \o <<":">> \o url3 ELSE url3
        url5 == IF query # <<>> THEN url4 \o <<"?">> \o query ELSE url4
    IN  IF fragment # <<>> THEN url5 \o <<"#">> \o fragment ELSE url5

----------------------------------------------------------------------------
(* ProxyResponse.translate_headers *)

SetCookieName == <<"S", "e", "t", "-", "C", "o", "o", "k", "i", "e">>

LocationName == <<"L", "o", "c", "a", "t", "i", "o", "n">>

\* the headers one Set-Cookie value is replaced by
RECURSIVE SetCookieHeaders(_)
SetCookieHeaders(cookies) ==
    IF cookies = <<>> THEN <<>>
    ELSE << Header(SetCookieName, Head(cookies)) >> \o SetCookieHeaders(Tail(cookies))

\* the header a Location header is replaced by, parsed being urlparse(value)
RewriteLocation(header, parsed) ==
    IF parsed.raised THEN header
    ELSE IF parsed.netloc = <<>> THEN header
    ELSE IF Lower(parsed.netloc) = Lower(target_host)
    THEN Header(LocationName,
                UrlUnparse(parsed.scheme, proxy_host, parsed.path, parsed.params,
                           parsed.query, parsed.fragment))
    ELSE header

\* the Location branch of translate_headers
LocationHeader(header) == RewriteLocation(header, UrlParse(header.value))

\* Mutant: a header that is neither Set-Cookie nor Location gets its name in
\* lower case.
TranslateResponseHeaderLowercasing(header) ==
    LET lower_name == Lower(header.name)
    IN  IF lower_name = Lower(SetCookieName)
        THEN LET rewritten == RewriteCookies(<< header.value >>)
             IN  [raised |-> rewritten.raised, headers |-> SetCookieHeaders(rewritten.cookies)]
        ELSE IF lower_name = Lower(LocationName)
        THEN [raised |-> FALSE, headers |-> << LocationHeader(header) >>]
        ELSE [raised |-> FALSE, headers |-> << Header(lower_name, header.value) >>]

\* one turn of the loop of translate_headers: what the header adds to
\* new_headers, and whether rewrite_cookies raised
TranslateResponseHeader(header) ==
    LET lower_name == Lower(header.name)
    IN  IF lower_name = Lower(SetCookieName)
        THEN LET rewritten == RewriteCookies(<< header.value >>)
             IN  [raised |-> rewritten.raised, headers |-> SetCookieHeaders(rewritten.cookies)]
        ELSE IF lower_name = Lower(LocationName)
        THEN [raised |-> FALSE, headers |-> << LocationHeader(header) >>]
        ELSE [raised |-> FALSE, headers |-> << header >>]

\* translate_headers(target_host, proxy_host) on a header list: new_headers,
\* or raised when the exception of rewrite_cookies leaves the method
RECURSIVE TranslateHeadersFrom(_, _)
TranslateHeadersFrom(rest, new_headers) ==
    IF rest = <<>> THEN [raised |-> FALSE, headers |-> new_headers]
    ELSE LET added == TranslateResponseHeader(Head(rest))
         IN  IF added.raised THEN [raised |-> TRUE, headers |-> <<>>]
             ELSE TranslateHeadersFrom(Tail(rest), new_headers \o added.headers)

TranslateHeaders(header_list) == TranslateHeadersFrom(header_list, <<>>)

\* most headers in a generated response
MaxResponseHeaders == 3

LocationSchemes == { <<>>, <<"h", "t", "t", "p", "s", ":">>, <<"H", "T", "T", "P", ":">> }

LocationAuthorities ==
    { <<>>, <<"/", "/", "e", "x", ".", "c", "o", "m">>, <<"/", "/", "E", "X", ".", "c", "o", "m">>, <<"/", "/", "e", "x", ".", "c", "o", "m", ":", "4", "4", "3">>,
      <<"/", "/", "o", "t", "h", "e", "r", ".", "c", "o", "m">>, <<"/", "/", "w", "w", "w", ".", "e", "x", ".", "c", "o", "m">>, <<"/", "/", "a", ".", "b", ".", "e", "x", ".", "c", "o", "m">>, <<"/", "/", "[", "e", "x", ".", "c", "o", "m">> }

LocationPaths == { <<>>, <<"/", "n", "e", "x", "t">>, <<"/", "a", ";", "p", "=", "1">>, <<"n", "e", "x", "t">> }

LocationQueries == { <<>>, <<"?">>, <<"?", "q", "=", "1">> }

LocationFragments == { <<>>, <<"#", "f">> }

Locations ==
    { s \o a \o p \o q \o f :
        s \in LocationSchemes, a \in LocationAuthorities, p \in LocationPaths,
        q \in LocationQueries, f \in LocationFragments }

ResponseHeaderPool ==
    { Header(<<"C", "o", "n", "t", "e", "n", "t", "-", "T", "y", "p", "e">>, <<"t", "e", "x", "t", "/", "h", "t", "m", "l">>),
      Header(<<"S", "e", "t", "-", "C", "o", "o", "k", "i", "e">>, <<"a", "=", "1", ";", " ", "D", "o", "m", "a", "i", "n", "=", "e", "x", ".", "c", "o", "m">>),
      Header(<<"s", "e", "t", "-", "c", "o", "o", "k", "i", "e">>, <<"b", "=", "2", ",", " ", "c", "=", "3", ";", " ", "D", "o", "m", "a", "i", "n", "=", ".", "e", "x", ".", "c", "o", "m">>),
      Header(<<"S", "e", "t", "-", "C", "o", "o", "k", "i", "e">>, <<"j", "u", "n", "k">>),
      Header(<<"S", "e", "t", "-", "C", "o", "o", "k", "i", "e">>, <<"d", "=", "4", ";", " ", "D", "o", "m", "a", "i", "n">>),
      Header(<<"L", "o", "c", "a", "t", "i", "o", "n">>, <<"h", "t", "t", "p", "s", ":", "/", "/", "e", "x", ".", "c", "o", "m", "/", "n", "e", "x", "t">>),
      Header(<<"l", "o", "c", "a", "t", "i", "o", "n">>, <<"/", "r", "e", "l", "a", "t", "i", "v", "e">>),
      Header(<<"X", "-", "M", "u", "l", "t", "i">>, <<"1">>),
      Header(<<"x", "-", "m", "u", "l", "t", "i">>, <<"2">>) }

ResponseHeaderLists ==
    { << Header(n, v) >> : n \in { <<"L", "o", "c", "a", "t", "i", "o", "n">>, <<"l", "o", "c", "a", "t", "i", "o", "n">> }, v \in Locations }
        \cup UNION { [1..n -> ResponseHeaderPool] : n \in 0..MaxResponseHeaders }

HeadersInit ==
    /\ target_host \in TargetHosts
    /\ proxy_host \in ProxyHosts
    /\ pc = "constructed"
    /\ raised = FALSE
    /\ CookieIdle
    /\ origin_headers \in ResponseHeaderLists
    /\ resp_headers = origin_headers
    /\ body_stream = <<>>
    /\ ResponseIdle
    /\ RequestIdle
    /\ ServerIdle

\* translate_headers(target_host, proxy_host); self.headers is assigned at
\* the end, so it keeps its value when the method raises
CallTranslateHeaders ==
    /\ pc = "constructed"
    /\ \E translated \in { TranslateHeaders(resp_headers) } :
           /\ raised' = translated.raised
           /\ resp_headers' = IF translated.raised THEN resp_headers ELSE translated.headers
    /\ pc' = "translate_headers"
    /\ UNCHANGED <<target_host, proxy_host, cookieVars, requestVars, serverVars,
                   origin_headers, body_stream, chunk, yielded, done, iterVars>>

HeadersNext == CallTranslateHeaders

HeadersSpec == HeadersInit /\ [][HeadersNext]_vars

----------------------------------------------------------------------------
(* C14 *)

NamedLocation(header) == Lower(header.name) = <<"l", "o", "c", "a", "t", "i", "o", "n">>

\* the host of an authority: what follows the user information and precedes
\* the port
HostOfAuthority(authority) ==
    LET at == FindLast(authority, "@")
        host_port == SubSeq(authority, at + 1, Len(authority))
        colon == Find(host_port, ":")
    IN  IF colon > 0 THEN SubSeq(host_port, 1, colon - 1) ELSE host_port

\* the host of the URL in a Location value, empty for a relative one
UrlHost(value) == HostOfAuthority(UrlParse(value).netloc)

PointsAtTarget(value) ==
    UrlHost(value) # <<>> /\ Lower(UrlHost(value)) = Lower(target_host)

\* translate_headers returned on a response whose only header is a Location
LocationTranslated ==
    /\ pc = "translate_headers"
    /\ ~raised
    /\ Len(origin_headers) = 1
    /\ NamedLocation(origin_headers[1])

\* C14: the Location value is changed exactly when the host of its URL is
\* target_host, letter case ignored; then the host becomes proxy_host and
\* scheme, path, params, query and fragment are as before; a relative
\* Location and one of another host are emitted unchanged.
C14_LocationRewrittenIffHostIsTarget ==
    LocationTranslated =>
        LET old == origin_headers[1].value
            new == resp_headers[1].value
        IN  /\ Len(resp_headers) = 1
            /\ NamedLocation(resp_headers[1])
            /\ (new # old) <=> PointsAtTarget(old)
            /\ new # old =>
                  /\ Lower(UrlHost(new)) = Lower(proxy_host)
                  /\ UrlParse(new).scheme = UrlParse(old).scheme
                  /\ UrlParse(new).path = UrlParse(old).path
                  /\ UrlParse(new).params = UrlParse(old).params
                  /\ UrlParse(new).query = UrlParse(old).query
                  /\ UrlParse(new).fragment = UrlParse(old).fragment

----------------------------------------------------------------------------
(* C18 *)

NamedSetCookie(header) == Lower(header.name) = <<"s", "e", "t", "-", "c", "o", "o", "k", "i", "e">>

\* a header that is neither Set-Cookie nor Location
PassedThrough(header) == ~NamedSetCookie(header) /\ ~NamedLocation(header)

\* after is before with every other header in place, one Location header in
\* the place of each Location header, and the Set-Cookie headers a Set-Cookie
\* header was rewritten to, none or several, in the place of that header
RECURSIVE InPlace(_, _)
InPlace(before, after) ==
    IF before = <<>> THEN after = <<>>
    ELSE IF PassedThrough(Head(before))
    THEN after # <<>> /\ Head(after) = Head(before) /\ InPlace(Tail(before), Tail(after))
    ELSE IF NamedLocation(Head(before))
    THEN after # <<>> /\ NamedLocation(Head(after)) /\ InPlace(Tail(before), Tail(after))
    ELSE \E k \in 0..Len(after) :
            /\ \A i \in 1..k : NamedSetCookie(after[i])
            /\ InPlace(Tail(before), SubSeq(after, k + 1, Len(after)))

\* C18: translate_headers leaves every header other than Set-Cookie and
\* Location as it is, name casing, value and duplicates, in the same order,
\* and what a Set-Cookie or Location header is rewritten to stands where that
\* header stood.
C18_OtherHeadersPassThrough ==
    pc = "translate_headers" =>
        /\ SelectSeq(resp_headers, PassedThrough) = SelectSeq(origin_headers, PassedThrough)
        /\ ~raised => InPlace(origin_headers, resp_headers)

\* a duplicated header in two casings around a Set-Cookie that was rewritten
C18_Witness ==
    /\ pc = "translate_headers"
    /\ ~raised
    /\ Len(origin_headers) = 3
    /\ PassedThrough(origin_headers[1])
    /\ NamedSetCookie(origin_headers[2])
    /\ PassedThrough(origin_headers[3])
    /\ origin_headers[1].name # origin_headers[3].name
    /\ Lower(origin_headers[1].name) = Lower(origin_headers[3].name)
    /\ Len(resp_headers) = 3
    /\ resp_headers[1] = origin_headers[1]
    /\ resp_headers[3] = origin_headers[3]
    /\ NamedSetCookie(resp_headers[2])
    /\ resp_headers[2].value # origin_headers[2].value

----------------------------------------------------------------------------
(* The handler proxy_request of HostRewriteServer: one inbound request,   *)
(* the call of requests.request, and the Response it returns.             *)

\* dict(proxy_req.headers): a key keeps the place of its first pair and the
\* value of its last; keys differing in case are different keys
RECURSIVE DictOfHeaders(_)
DictOfHeaders(headers) ==
    IF headers = <<>> THEN <<>>
    ELSE LET last == headers[Len(headers)]
             before == DictOfHeaders(SubSeq(headers, 1, Len(headers) - 1))
         IN  IF \E i \in DOMAIN before : before[i].name = last.name
             THEN [i \in DOMAIN before |->
                     IF before[i].name = last.name THEN last ELSE before[i]]
             ELSE Append(before, last)

\* the path variable of the route '/<path:path>': request.path without its
\* leading slash
RoutePath(path) == Tail(path)

\* target_url
TargetUrl(host, path, query_string) ==
    LET target_url == <<"h", "t", "t", "p", "s", ":", "/", "/">> \o host \o <<"/">> \o RoutePath(path)
    IN  IF query_string # NoneValue /\ query_string # <<>>
        THEN target_url \o <<"?">> \o query_string
        ELSE target_url

ContentEncodingName == <<"c", "o", "n", "t", "e", "n", "t", "-", "e", "n", "c", "o", "d", "i", "n", "g">>

ContentLengthName == <<"c", "o", "n", "t", "e", "n", "t", "-", "l", "e", "n", "g", "t", "h">>

\* Mutant: the names are compared as the origin wrote them.
FilterEntityHeadersCaseSensitive(headers) ==
    SelectSeq(headers, LAMBDA h : h.name \notin {ContentEncodingName, ContentLengthName})

\* the list comprehension that drops Content-Encoding and Content-Length
FilterEntityHeaders(headers) ==
    SelectSeq(headers, LAMBDA h : Lower(h.name) \notin {ContentEncodingName, ContentLengthName})

GzipName == <<"g", "z", "i", "p">>

\* s in text, for a string s
ContainsString(text, s) ==
    \E i \in 1..(Len(text) - Len(s) + 1) : SubSeq(text, i, i + Len(s) - 1) = s

\* is_gzipped, computed from the headers of px_resp
IsGzipped(headers) ==
    \E i \in DOMAIN headers :
        /\ Lower(headers[i].name) = ContentEncodingName
        /\ ContainsString(Lower(headers[i].value), GzipName)

\* a gzip member: the magic number 1F 8B, the compressed data (written here
\* as the data itself), and the trailer holding checksum and length
GzipMagic == <<"x1F", "x8B">>

GzipTrailer == <<"crc32">>

\* gzip.decompress(data): raises unless data is a whole gzip member
GzipDecompress(data) ==
    IF /\ Len(data) >= Len(GzipMagic) + Len(GzipTrailer)
       /\ SubSeq(data, 1, Len(GzipMagic)) = GzipMagic
       /\ EndsWith(data, GzipTrailer)
    THEN [raised |-> FALSE,
          data |-> SubSeq(data, Len(GzipMagic) + 1, Len(data) - Len(GzipTrailer))]
    ELSE [raised |-> TRUE, data |-> <<>>]

\* the number of gzip codings the origin's Content-Encoding headers declare
RECURSIVE DeclaredGzip(_)
DeclaredGzip(headers) ==
    IF headers = <<>> THEN 0
    ELSE (IF /\ Lower(Head(headers).name) = ContentEncodingName
             /\ Lower(Head(headers).value) = GzipName
          THEN 1 ELSE 0) + DeclaredGzip(Tail(headers))

\* the body decoded from n gzip codings
RECURSIVE Decoded(_, _)
Decoded(n, data) ==
    IF n = 0 THEN [raised |-> FALSE, data |-> data]
    ELSE LET once == GzipDecompress(data)
         IN  IF once.raised THEN once ELSE Decoded(n - 1, once.data)

\* resp.content: the body, decoded from the codings its Content-Encoding
\* declares; raises when the body is not what was declared
ResponseContent(headers, body) == Decoded(DeclaredGzip(headers), body)

\* chunk_size
ChunkSize == 8192

\* the slices encoded_text[i:i + chunk_size] for i in range(0, len, chunk_size)
RECURSIVE ChunksOf(_)
ChunksOf(encoded_text) ==
    IF encoded_text = <<>> THEN <<>>
    ELSE IF Len(encoded_text) <= ChunkSize THEN << encoded_text >>
    ELSE << SubSeq(encoded_text, 1, ChunkSize) >>
         \o ChunksOf(SubSeq(encoded_text, ChunkSize + 1, Len(encoded_text)))

\* what the except branches yield
EmptyChunk == << <<>> >>

\* the chunks stream_content yields once resp.content was read into all_data
YieldedChunks(is_gzipped, all_data, origin_host, proxy) ==
    IF is_gzipped
    THEN IF all_data.raised \/ GzipDecompress(all_data.data).raised
         \* the fallback reads resp.raw, which resp.content has drained
         THEN <<>>
         ELSE ChunksOf(TranslateChunk(GzipDecompress(all_data.data).data, origin_host, proxy))
    ELSE IF all_data.raised THEN EmptyChunk
    ELSE ChunksOf(TranslateChunk(all_data.data, origin_host, proxy))

\* the chunks stream_content yields: px_headers are the headers of px_resp,
\* sent_headers and body what the origin sent
StreamContentChunks(px_headers, sent_headers, body, origin_host, proxy) ==
    YieldedChunks(IsGzipped(px_headers), ResponseContent(sent_headers, body),
                  origin_host, proxy)

\* the ways requests.request raises
UpstreamErrors == {"dns", "connect", "tls"}

CookieName == <<"C", "o", "o", "k", "i", "e">>

ServerHeaderLists ==
    { << Header(HostName, <<"p", "x", ".", "a", "p", "p">>) >>,
      << Header(HostName, <<"p", "x", ".", "a", "p", "p">>), Header(CookieName, <<"a", "=", "1">>), Header(CookieName, <<"b", "=", "2">>) >>,
      << Header(HostName, <<"p", "x", ".", "a", "p", "p">>), Header(<<"c", "o", "o", "k", "i", "e">>, <<"a", "=", "1">>), Header(CookieName, <<"b", "=", "2">>) >>,
      << Header(<<"X", "-", "M", "u", "l", "t", "i">>, <<"1">>), Header(<<"X", "-", "M", "u", "l", "t", "i">>, <<"2">>), Header(<<"X", "-", "M", "u", "l", "t", "i">>, <<"3">>),
         Header(<<"X", "-", "M", "u", "l", "t", "i">>, <<"4">>), Header(<<"X", "-", "M", "u", "l", "t", "i">>, <<"5">>), Header(<<"h", "o", "s", "t">>, <<"p", "x", ".", "a", "p", "p">>) >>,
      << Header(HostName, <<"p", "x", ".", "a", "p", "p">>), Header(<<"A", "c", "c", "e", "p", "t">>, <<"*", "/", "*">>), Header(<<"C", "o", "n", "n", "e", "c", "t", "i", "o", "n">>, <<"c", "l", "o", "s", "e">>),
         Header(<<"C", "o", "n", "t", "e", "n", "t", "-", "L", "e", "n", "g", "t", "h">>, <<"6">>) >>,
      << Header(<<"A", "c", "c", "e", "p", "t">>, <<"t", "e", "x", "t", "/", "h", "t", "m", "l">>), Header(HostName, <<"p", "x", ".", "a", "p", "p">>), Header(<<"A", "c", "c", "e", "p", "t">>, <<"*", "/", "*">>),
         Header(<<"X", "-", "M", "u", "l", "t", "i">>, <<"1">>) >> }

ServerRequests ==
    { [method |-> <<"G", "E", "T">>, path |-> <<"/">>, headers |-> h, body |-> <<>>,
       query_string |-> NoneValue] : h \in ServerHeaderLists }
    \cup
    { [method |-> <<"P", "O", "S", "T">>, path |-> <<"/", "l", "o", "g", "i", "n">>, headers |-> h, body |-> <<"u", "s", "e", "r", "=", "u">>,
       query_string |-> <<"n", "e", "x", "t", "=", "/", "h", "o", "m", "e">>] : h \in ServerHeaderLists }

OriginStatuses == {200, 302}

OriginHeaderLists ==
    { <<>>,
      << Header(<<"C", "o", "n", "t", "e", "n", "t", "-", "T", "y", "p", "e">>, <<"t", "e", "x", "t", "/", "h", "t", "m", "l">>), Header(<<"C", "o", "n", "t", "e", "n", "t", "-", "L", "e", "n", "g", "t", "h">>, <<"1", "2">>) >>,
      << Header(<<"C", "o", "n", "t", "e", "n", "t", "-", "E", "n", "c", "o", "d", "i", "n", "g">>, <<"g", "z", "i", "p">>), Header(<<"c", "o", "n", "t", "e", "n", "t", "-", "l", "e", "n", "g", "t", "h">>, <<"1", "2">>) >>,
      << Header(<<"c", "o", "n", "t", "e", "n", "t", "-", "E", "N", "C", "O", "D", "I", "N", "G">>, <<"G", "Z", "I", "P">>), Header(<<"X", "-", "M", "u", "l", "t", "i">>, <<"1">>), Header(<<"X", "-", "M", "u", "l", "t", "i">>, <<"2">>) >>,
      << Header(<<"C", "o", "n", "t", "e", "n", "t", "-", "E", "n", "c", "o", "d", "i", "n", "g">>, <<"g", "z", "i", "p">>), Header(<<"C", "o", "n", "t", "e", "n", "t", "-", "E", "n", "c", "o", "d", "i", "n", "g">>, <<"g", "z", "i", "p">>) >>,
      << Header(<<"C", "o", "n", "t", "e", "n", "t", "-", "E", "n", "c", "o", "d", "i", "n", "g">>, <<"i", "d", "e", "n", "t", "i", "t", "y">>), Header(<<"C", "O", "N", "T", "E", "N", "T", "-", "L", "E", "N", "G", "T", "H">>, <<"1", "2">>) >>,
      << Header(<<"S", "e", "t", "-", "C", "o", "o", "k", "i", "e">>, <<"a", "=", "1", ";", " ", "D", "o", "m", "a", "i", "n", "=", "e", "x", ".", "c", "o", "m">>), Header(<<"C", "o", "n", "t", "e", "n", "t", "-", "L", "e", "n", "g", "t", "h">>, <<"1", "2">>),
         Header(<<"L", "o", "c", "a", "t", "i", "o", "n">>, <<"h", "t", "t", "p", "s", ":", "/", "/", "e", "x", ".", "c", "o", "m", "/", "n", "e", "x", "t">>) >>,
      << Header(<<"C", "o", "n", "t", "e", "n", "t", "-", "L", "e", "n", "g", "t", "h">>, <<"1", "2">>), Header(<<"S", "e", "t", "-", "C", "o", "o", "k", "i", "e">>, <<"d", "=", "4", ";", " ", "D", "o", "m", "a", "i", "n">>) >> }

PlainBodies ==
    { <<>>,
      <<"s", "e", "e", " ", "h", "t", "t", "p", "s", ":", "/", "/", "e", "x", ".", "c", "o", "m", "/", "p">>,
      <<"a">> \o <<LeadByte, ContinuationByte, InvalidByte>> \o <<"/", "/", "E", "X", ".", "c", "o", "m">> }

\* a body as the origin may send it: plain, a gzip member, a gzip member of a
\* gzip member, or a gzip member cut short
OriginBodies ==
    PlainBodies
    \cup { GzipMagic \o b \o GzipTrailer : b \in PlainBodies }
    \cup { GzipMagic \o GzipMagic \o b \o GzipTrailer \o GzipTrailer : b \in PlainBodies }
    \cup { GzipMagic \o b : b \in PlainBodies }

\* the reads in which the body arrives from the origin: none for an empty
\* body, else the whole body in one read, or one half in each of two
UpstreamChunks(body) ==
    IF body = <<>> THEN { <<>> }
    ELSE IF Len(body) = 1 THEN { << body >> }
    ELSE { << body >>,
           << SubSeq(body, 1, Len(body) \div 2),
              SubSeq(body, Len(body) \div 2 + 1, Len(body)) >> }

\* the origin does not send gzip members it has not declared
OriginResponses ==
    { r \in [status : OriginStatuses, headers : OriginHeaderLists, body : OriginBodies] :
        DeclaredGzip(r.headers) = 0 => r.body \in PlainBodies }

ServerInit ==
    /\ target_host = <<"e", "x", ".", "c", "o", "m">>
    /\ proxy_host = <<"p", "x", ".", "a", "p", "p">>
    /\ pc = "constructed"
    /\ raised = FALSE
    /\ CookieIdle
    /\ origin_headers = <<>>
    /\ resp_headers = <<>>
    /\ body_stream = <<>>
    /\ ResponseIdle
    /\ received \in ServerRequests
    /\ proxy_req = received
    /\ ServerIdle

\* from_quart, translate, and the call of requests.request
ForwardRequest ==
    /\ pc = "constructed"
    /\ LET translated == TranslateRequestHeaders(proxy_req.headers, target_host)
       IN  /\ proxy_req' = [proxy_req EXCEPT !.headers = translated]
           /\ upstream_call' = [called |-> TRUE,
                                method |-> proxy_req.method,
                                url |-> TargetUrl(target_host, proxy_req.path,
                                                  proxy_req.query_string),
                                headers |-> DictOfHeaders(translated)]
    /\ pc' = "upstream"
    /\ UNCHANGED <<target_host, proxy_host, raised, cookieVars, responseVars, received,
                   upstream, response, origin_body, client_body, concurrentVars>>

\* requests.request raises; nothing in the handler catches it
UpstreamFails ==
    /\ pc = "upstream"
    /\ \E kind \in UpstreamErrors : upstream' = [kind |-> kind, status |-> 0]
    /\ raised' = TRUE
    /\ pc' = "raised"
    /\ UNCHANGED <<target_host, proxy_host, cookieVars, responseVars, requestVars,
                   upstream_call, response, origin_body, client_body, concurrentVars>>

\* the origin never answers; requests.request is called without a timeout
UpstreamStalls ==
    /\ pc = "upstream"
    /\ upstream' = [kind |-> "stalled", status |-> 0]
    /\ pc' = "waiting"
    /\ UNCHANGED <<target_host, proxy_host, raised, cookieVars, responseVars, requestVars,
                   upstream_call, response, origin_body, client_body, concurrentVars>>

\* the origin answers: from_requests, translate_headers, the filter of the
\* entity headers, and the Response returned; with stream=True the body is
\* still to be read
UpstreamResponds ==
    /\ pc = "upstream"
    /\ \E r \in OriginResponses :
        \E translated \in { TranslateHeaders(r.headers) } :
        \E px_headers \in { FilterEntityHeaders(translated.headers) } :
            /\ upstream' = [kind |-> "response", status |-> r.status]
            /\ body_stream' \in UpstreamChunks(r.body)
            /\ origin_headers' = r.headers
            /\ origin_body' = r.body
            /\ raised' = translated.raised
            /\ resp_headers' = IF translated.raised THEN r.headers ELSE px_headers
            /\ response' = IF translated.raised THEN NoResponse
                           ELSE [returned |-> TRUE, status |-> r.status,
                                 headers |-> px_headers]
            /\ pc' = IF translated.raised THEN "raised" ELSE "returned"
    /\ UNCHANGED <<target_host, proxy_host, cookieVars, requestVars, chunk,
                   yielded, done, iterVars, upstream_call, client_body, concurrentVars>>

\* the server starts to iterate stream_content(): resp.content reads the
\* body to its end before anything is yielded
ReadContent ==
    /\ pc = "returned"
    /\ chunks_read' = body_stream
    /\ body_stream' = <<>>
    /\ pc' = "buffered"
    /\ UNCHANGED <<target_host, proxy_host, raised, cookieVars, requestVars, serverVars,
                   origin_headers, resp_headers, chunk, yielded, done, translate_iter,
                   stream_closed, chunks_returned>>

\* stream_content() decodes, rewrites and yields what was read
StreamContent ==
    /\ pc = "buffered"
    /\ client_body' = StreamContentChunks(resp_headers, origin_headers, origin_body,
                                          target_host, proxy_host)
    /\ pc' = "streamed"
    /\ UNCHANGED <<target_host, proxy_host, raised, cookieVars, responseVars, requestVars,
                   upstream_call, upstream, response, origin_body, concurrentVars>>

ServerNext ==
    \/ ForwardRequest
    \/ UpstreamFails
    \/ UpstreamStalls
    \/ UpstreamResponds
    \/ ReadContent
    \/ StreamContent

ServerSpec == ServerInit /\ [][ServerNext]_vars

----------------------------------------------------------------------------
(* C13 *)

NamedEntityHeader(header) ==
    Lower(header.name) \in {ContentEncodingName, ContentLengthName}

\* C13: Every response the handler returns carries no Content-Encoding and
\* no Content-Length header, the name compared without regard to case,
\* whatever headers the origin sent, gzip declared or not.
C13_NoEntityHeadersReturned ==
    response.returned =>
        \A i \in DOMAIN response.headers : ~NamedEntityHeader(response.headers[i])

\* a response was returned for an origin that declared gzip and a length,
\* in names that are not all lower case, and it kept some other header
C13_Witness ==
    /\ response.returned
    /\ DeclaredGzip(origin_headers) > 0
    /\ \E i \in DOMAIN origin_headers :
        /\ NamedEntityHeader(origin_headers[i])
        /\ origin_headers[i].name # Lower(origin_headers[i].name)
    /\ response.headers # <<>>

----------------------------------------------------------------------------
(* C17 *)

\* C17: The headers the handler sends upstream are exactly the translated
\* ProxyRequest.headers list: a name received k times is sent k times, with
\* each of its values, none merged or lost.
C17_EveryHeaderSentUpstream ==
    upstream_call.called => upstream_call.headers = proxy_req.headers

----------------------------------------------------------------------------
(* C19 *)

\* C19: When the upstream call fails, the handler itself answers the
\* request with a 5xx response.
C19_UpstreamFailureAnswered ==
    upstream.kind \in UpstreamErrors =>
        /\ response.returned
        /\ response.status \in 500..599

----------------------------------------------------------------------------
(* C20 *)

\* the origin declared gzip and its body does not decompress
DecompressionFails ==
    /\ DeclaredGzip(origin_headers) > 0
    /\ ResponseContent(origin_headers, origin_body).raised

\* C20: When decompression of a gzip-declared origin body fails, the client
\* receives the raw origin bytes, not an empty body.
C20_RawBytesForwarded ==
    (pc = "streamed" /\ DecompressionFails /\ origin_body # <<>>) =>
        Concat(client_body) = origin_body

----------------------------------------------------------------------------
(* C21 *)

\* streaming is over: the generator ended, by the end of the stream, by an
\* exception of the stream, or because the consumer dropped it
StreamingOver == translate_iter = "finished"

\* C21: The body stream is closed on every path out of streaming: iterated
\* to the end, abandoned by the consumer before the end, or ended by an
\* exception of the underlying stream.
C21_StreamClosedOnEveryPath == StreamingOver => stream_closed

----------------------------------------------------------------------------
(* C27 *)

\* what next_chunk has returned so far is the translation of what was read,
\* chunk by chunk, and done_flag True comes with b'' once the body is through
ReturnedInStreamOrder ==
    /\ Len(chunks_returned) = Len(chunks_read)
    /\ \A i \in DOMAIN chunks_read :
        chunks_returned[i] = TranslateChunk(chunks_read[i], target_host, proxy_host)
    /\ done =>
        /\ yielded = <<>>
        /\ translate_iter = "finished"
        /\ body_stream = <<>> \/ Head(body_stream) = StreamError

\* a call returns the next chunk with done_flag False, and after done_flag
\* True no call returns a chunk or done_flag False
OnceThenDone ==
    /\ chunks_returned' # chunks_returned =>
        /\ ~done'
        /\ chunks_returned' = Append(chunks_returned, yielded')
        /\ body_stream # <<>>
        /\ chunks_read' = Append(chunks_read, Head(body_stream))
        /\ body_stream' = Tail(body_stream)
    /\ done => done' /\ yielded' = <<>> /\ chunks_returned' = chunks_returned

\* C27: Repeated calls of next_chunk return each translated chunk of the
\* body exactly once, in stream order, with done_flag False, then (b'', True);
\* after that every call returns (b'', True) and no chunk is returned again.
C27_EachChunkOnceThenDone == []ReturnedInStreamOrder /\ [][OnceThenDone]_vars

\* a body of two chunks went through, translated, and done_flag is True
C27_Witness ==
    /\ done
    /\ body_stream = <<>>
    /\ Len(chunks_read) = 2
    /\ chunks_returned # chunks_read
    /\ chunks_read[1] # chunks_read[2]

----------------------------------------------------------------------------
(* C28 *)

\* the text of the k-th chunk read, and of the k-th chunk returned
TextRead(k) == DecodeIgnore(chunks_read[k])

TextReturned(k) == DecodeIgnore(chunks_returned[k])

\* an occurrence of the pattern, letter case ignored, that begins at
\* position i of the k-th chunk read and ends in the chunk after it
SpansChunks(pattern, k, i) ==
    LET joined == TextRead(k) \o TextRead(k + 1)
    IN  /\ k + 1 \in DOMAIN chunks_read
        /\ i \in DOMAIN TextRead(k)
        /\ i + Len(pattern) - 1 > Len(TextRead(k))
        /\ i + Len(pattern) - 1 <= Len(joined)
        /\ Lower(SubSeq(joined, i, i + Len(pattern) - 1)) = Lower(pattern)

\* that occurrence came out as it went in: its beginning ends the k-th chunk
\* returned and its end begins the next
CameOutUnchanged(pattern, k, i) ==
    LET head == SubSeq(TextRead(k), i, Len(TextRead(k)))
        rest == SubSeq(TextRead(k + 1), 1, Len(pattern) - Len(head))
    IN  /\ Len(TextReturned(k)) >= Len(head)
        /\ SubSeq(TextReturned(k), Len(TextReturned(k)) - Len(head) + 1,
                  Len(TextReturned(k))) = head
        /\ Len(TextReturned(k + 1)) >= Len(rest)
        /\ SubSeq(TextReturned(k + 1), 1, Len(rest)) = rest

\* C28 as stated: an occurrence of http://target_host, https://target_host or
\* //target_host that begins in one chunk and ends in the next is not
\* rewritten.
C28_SpanningOccurrenceNotRewritten ==
    \A pattern \in {AbsoluteHttp, AbsoluteHttps, ProtocolRelative} :
        \A k \in DOMAIN chunks_read : \A i \in 1..Len(chunks_read[k]) :
            SpansChunks(pattern, k, i) => CameOutUnchanged(pattern, k, i)

\* C28, amended: an occurrence of //target_host that begins in one chunk and
\* ends in the next is not rewritten.
C28_SpanningHostNotRewritten ==
    \A k \in DOMAIN chunks_read : \A i \in 1..Len(chunks_read[k]) :
        SpansChunks(ProtocolRelative, k, i) => CameOutUnchanged(ProtocolRelative, k, i)

\* a body was streamed to its end with //target_host cut by a chunk boundary,
\* and the joined output is not the rewrite of the joined input
C28_Witness ==
    /\ done
    /\ body_stream = <<>>
    /\ \E k \in DOMAIN chunks_read : \E i \in 1..Len(chunks_read[k]) :
        SpansChunks(ProtocolRelative, k, i)
    /\ Concat(chunks_returned) # TranslateChunk(Concat(chunks_read), target_host, proxy_host)
    /\ Concat(chunks_returned) = Concat(chunks_read)

----------------------------------------------------------------------------
(* C29 *)

\* C29: For every target_host and proxy_host, a proxy_host that begins with
\* target_host included, the rewrite of a chunk rewrites each URL exactly
\* once, the protocol-relative pass leaving alone what the absolute pass
\* wrote, and rewriting the rewritten chunk again changes nothing.
C29_EachUrlRewrittenOnce ==
    ChunkYielded /\ yielded = Encode(TextOf(yielded)) =>
        /\ TextOf(yielded) = ReplacedFrom(TextOf(chunk), 1)
        /\ TranslateChunk(yielded, target_host, proxy_host) = yielded

----------------------------------------------------------------------------
(* C30 *)

\* C30: rewrite_cookies is idempotent on its own output: for every input
\* list, rewriting the returned list again returns the same list, with the
\* same number of elements.
C30_RewriteCookiesIdempotent ==
    (pc = "rewrite_cookies" /\ ~raised) =>
        LET again == RewriteCookies(rewritten_cookies)
        IN  /\ ~again.raised
            /\ again.cookies = rewritten_cookies

----------------------------------------------------------------------------
(* C26 *)

\* C26: For any list of N cookie strings in which a comma occurs only
\* inside double quotes or inside an Expires date, _split_cookies of the
\* strings joined with ', ' returns exactly those N strings, in order.
C26_SplitReturnsTheJoinedCookies ==
    pc = "_split_cookies" =>
        \A n \in 0..MaxJoined : \A cookies \in [1..n -> JoinableCookies] :
            joined_header = JoinCookies(cookies) => split_result = cookies

----------------------------------------------------------------------------
(* C24 *)

\* C24: When the origin response declares Content-Encoding: gzip, the
\* handler's stream_content takes the gzip path: it buffers the whole body,
\* gzip-decompresses it and rewrites the decompressed text; the gzip check
\* is evaluated on headers that still show the origin's Content-Encoding.
C24_GzipPathTaken ==
    (pc = "streamed" /\ DeclaredGzip(origin_headers) > 0) =>
        IsGzipped(resp_headers)

----------------------------------------------------------------------------
(* C25 *)

\* the origin's body is not gzip and arrives in more than one read
ManyChunkPlainBody ==
    /\ response.returned
    /\ DeclaredGzip(origin_headers) = 0
    /\ Len(chunks_read) + Len(body_stream) > 1

\* C25: For a non-gzip origin body of more than one chunk, the handler
\* forwards incrementally: the first rewritten chunk is handed to the client
\* before the last chunk of the upstream body has been read, and the body
\* is never fully buffered.
C25_ForwardedIncrementally ==
    (ManyChunkPlainBody /\ client_body = <<>>) => body_stream # <<>>

----------------------------------------------------------------------------
(* C23 *)

\* where the handler itself can go on: before the upstream call, and with
\* the Response returned while stream_content() is iterated
HandlerPositions == {"constructed", "returned", "buffered"}

\* a step of the handler out of one of these positions: ForwardRequest,
\* ReadContent or StreamContent, each of which moves pc
HandlerStep ==
    /\ pc \in HandlerPositions
    /\ pc' \in {"upstream", "buffered", "streamed"}

\* the handler is a task of the event loop, which resumes it whenever it
\* can go on: a step of the handler that stays possible is taken.  What the
\* origin does, and when, is for the origin to choose.
ServerLiveSpec == ServerSpec /\ WF_pc(HandlerStep)

\* C23: If the origin never answers an upstream call, that call ends after
\* a bounded wait and the client eventually receives the same 5xx response
\* as for a connection error; a request does not stay pending forever.
C23_StalledCallAnswered ==
    (upstream.kind = "stalled") ~> (response.returned /\ response.status \in 500..599)

----------------------------------------------------------------------------
(* Handlers in flight together on one HostRewriteServer.  Each request is  *)
(* served by its own task of the event loop; a task runs from one await    *)
(* to the next without another task running in between, and the upstream   *)
(* call runs in a thread of the executor.  What belongs to a request by    *)
(* nature (its task, its connection, its upstream call) is in tasks; what  *)
(* the handler keeps in variables is in frames.                            *)

\* most requests in flight together
MaxInFlight == 2

InFlight == 1..MaxInFlight

\* Mutant: every call of the handler keeps its variables in one place, as
\* attributes of the server would be.
FrameOfServer(r) == 1

\* proxy_req, target_url, resp and px_resp are local variables of
\* proxy_request: each call has its own
FrameOf(r) == r

NoAnswer == [status |-> 0, headers |-> <<>>, body |-> <<>>]

NoFrame ==
    [proxy_req |-> NoRequest, target_url |-> <<>>, resp |-> NoAnswer, px_headers |-> <<>>,
     is_gzipped |-> FALSE, all_data |-> [raised |-> FALSE, data |-> <<>>]]

NewTask(q) ==
    [pc |-> "constructed", request |-> q, upstream_call |-> NoCall, upstream |-> "none",
     answer |-> NoAnswer, response |-> NoResponse, client_body |-> <<>>]

\* a GET and a POST, each with a Host and two Cookie headers
ConcurrentRequests ==
    { q \in ServerRequests :
        /\ Len(q.headers) = 3
        /\ q.headers[1].name = HostName
        /\ q.headers[2].name = CookieName }

\* a redirect with a cookie and a plain body, and a page sent gzip-encoded
ConcurrentAnswers ==
    { a \in OriginResponses :
        \/ /\ a.status = 302
           /\ \E i \in DOMAIN a.headers : a.headers[i].name = LocationName
           /\ ContainsString(a.body, HttpsScheme)
        \/ /\ a.status = 200
           /\ DeclaredGzip(a.headers) = 1
           /\ a.headers[1].value = GzipName
           /\ ~ResponseContent(a.headers, a.body).raised
           /\ ResponseContent(a.headers, a.body).data \in PlainBodies
           /\ ContainsString(ResponseContent(a.headers, a.body).data, <<InvalidByte>>) }

ConcurrentInit ==
    /\ target_host = <<"e", "x", ".", "c", "o", "m">>
    /\ proxy_host = <<"p", "x", ".", "a", "p", "p">>
    /\ pc = "serving"
    /\ raised = FALSE
    /\ CookieIdle
    /\ origin_headers = <<>>
    /\ resp_headers = <<>>
    /\ body_stream = <<>>
    /\ ResponseIdle
    /\ RequestIdle
    /\ upstream_call = NoCall
    /\ upstream = NoUpstream
    /\ response = NoResponse
    /\ origin_body = NoBody
    /\ client_body = <<>>
    /\ tasks \in [InFlight -> { NewTask(q) : q \in ConcurrentRequests }]
    /\ frames = [f \in InFlight |-> NoFrame]

\* the variables of the runs of one call at a time, idle here
sequentialVars == <<pc, raised, cookieVars, responseVars, requestVars, upstream_call,
                    upstream, response, origin_body, client_body>>

\* from_quart has returned: translate, and target_url
Prepare(r) ==
    /\ tasks[r].pc = "constructed"
    /\ \E translated \in { TranslateRequestHeaders(tasks[r].request.headers, target_host) } :
        frames' = [frames EXCEPT
                     ![FrameOf(r)].proxy_req = [tasks[r].request EXCEPT !.headers = translated],
                     ![FrameOf(r)].target_url = TargetUrl(target_host, tasks[r].request.path,
                                                          tasks[r].request.query_string)]
    /\ tasks' = [tasks EXCEPT ![r].pc = "submitted"]
    /\ UNCHANGED <<target_host, proxy_host, sequentialVars>>

\* the executor runs the lambda: requests.request is called with what
\* proxy_req and target_url hold by then
Call(r) ==
    /\ tasks[r].pc = "submitted"
    /\ tasks' = [tasks EXCEPT
                   ![r].pc = "upstream",
                   ![r].upstream_call =
                       [called |-> TRUE,
                        method |-> frames[FrameOf(r)].proxy_req.method,
                        url |-> frames[FrameOf(r)].target_url,
                        headers |-> DictOfHeaders(frames[FrameOf(r)].proxy_req.headers)]]
    /\ UNCHANGED frames
    /\ UNCHANGED <<target_host, proxy_host, sequentialVars>>

\* requests.request raises in the task that awaits it
Fail(r) ==
    /\ tasks[r].pc = "upstream"
    /\ tasks' = [tasks EXCEPT ![r].pc = "raised", ![r].upstream = "error"]
    /\ UNCHANGED frames
    /\ UNCHANGED <<target_host, proxy_host, sequentialVars>>

\* the origin never answers this call
Stall(r) ==
    /\ tasks[r].pc = "upstream"
    /\ tasks' = [tasks EXCEPT ![r].pc = "waiting", ![r].upstream = "stalled"]
    /\ UNCHANGED frames
    /\ UNCHANGED <<target_host, proxy_host, sequentialVars>>

\* the origin answers this call: resp, px_resp, translate_headers, the
\* filter of the entity headers, and the Response returned
Respond(r) ==
    /\ tasks[r].pc = "upstream"
    /\ \E a \in ConcurrentAnswers :
        \E translated \in { TranslateHeaders(a.headers) } :
        \E px_headers \in { FilterEntityHeaders(translated.headers) } :
            /\ frames' = [frames EXCEPT
                            ![FrameOf(r)].resp = a,
                            ![FrameOf(r)].px_headers =
                                IF translated.raised THEN a.headers ELSE px_headers]
            /\ tasks' = [tasks EXCEPT
                           ![r].pc = IF translated.raised THEN "raised" ELSE "returned",
                           ![r].upstream = "response",
                           ![r].answer = a,
                           ![r].response =
                               IF translated.raised THEN NoResponse
                               ELSE [returned |-> TRUE, status |-> a.status,
                                     headers |-> px_headers]]
    /\ UNCHANGED <<target_host, proxy_host, sequentialVars>>

\* stream_content() starts: is_gzipped, and the await of resp.content
Read(r) ==
    /\ tasks[r].pc = "returned"
    /\ \E all_data \in { ResponseContent(frames[FrameOf(r)].resp.headers,
                                         frames[FrameOf(r)].resp.body) } :
        frames' = [frames EXCEPT
                     ![FrameOf(r)].is_gzipped = IsGzipped(frames[FrameOf(r)].px_headers),
                     ![FrameOf(r)].all_data = all_data]
    /\ tasks' = [tasks EXCEPT ![r].pc = "buffered"]
    /\ UNCHANGED <<target_host, proxy_host, sequentialVars>>

\* stream_content() goes on: the text is rewritten and its chunks yielded
Stream(r) ==
    /\ tasks[r].pc = "buffered"
    /\ \E chunks \in { YieldedChunks(frames[FrameOf(r)].is_gzipped,
                                     frames[FrameOf(r)].all_data, target_host, proxy_host) } :
        tasks' = [tasks EXCEPT ![r].pc = "streamed", ![r].client_body = chunks]
    /\ UNCHANGED frames
    /\ UNCHANGED <<target_host, proxy_host, sequentialVars>>

ConcurrentNext ==
    \/ \E r \in InFlight : Prepare(r)
    \/ \E r \in InFlight : Call(r)
    \/ \E r \in InFlight : Fail(r)
    \/ \E r \in InFlight : Stall(r)
    \/ \E r \in InFlight : Respond(r)
    \/ \E r \in InFlight : Read(r)
    \/ \E r \in InFlight : Stream(r)

ConcurrentSpec == ConcurrentInit /\ [][ConcurrentNext]_vars

----------------------------------------------------------------------------
(* C22 *)

\* the call the handler makes for the request q alone
CallFor(q) ==
    [called |-> TRUE,
     method |-> q.method,
     url |-> TargetUrl(target_host, q.path, q.query_string),
     headers |-> DictOfHeaders(TranslateRequestHeaders(q.headers, target_host))]

\* the Response the handler returns for the origin's answer a alone
ResponseFor(a) ==
    [returned |-> TRUE,
     status |-> a.status,
     headers |-> FilterEntityHeaders(TranslateHeaders(a.headers).headers)]

\* the body the handler streams for the origin's answer a alone
BodyFor(a) ==
    StreamContentChunks(ResponseFor(a).headers, a.headers, a.body, target_host, proxy_host)

\* what went out for a request was made from that request and from the
\* answer to its own upstream call
OwnInputsOnly ==
    \A r \in DOMAIN tasks :
        /\ tasks[r].upstream_call.called =>
              tasks[r].upstream_call = CallFor(tasks[r].request)
        /\ tasks[r].response.returned =>
              tasks[r].response = ResponseFor(tasks[r].answer)
        /\ tasks[r].pc = "streamed" =>
              tasks[r].client_body = BodyFor(tasks[r].answer)

ConfigurationKept ==
    /\ target_host' = target_host
    /\ proxy_host' = proxy_host

\* C22: With two or more requests in flight together on one
\* HostRewriteServer, under every interleaving of their steps the upstream
\* call, the response and the body of each request are those the handler
\* makes from that request and its own upstream response alone, and no step
\* writes target_host or proxy_host.
C22_RequestsDoNotInterfere == []OwnInputsOnly /\ [][ConfigurationKept]_vars

\* two requests are between the await of their bodies and the first yield,
\* a GET answered with a redirect and a POST answered with a gzip page
C22_Witness ==
    /\ tasks # <<>>
    /\ tasks[1].pc = "buffered"
    /\ tasks[2].pc = "buffered"
    /\ tasks[1].request # tasks[2].request
    /\ tasks[1].answer.status = 302
    /\ tasks[2].answer.status = 200
    /\ frames[1].all_data # frames[2].all_data

====
